---- MODULE Spec2Model ----
(***************************************************************************)
(* SafeTalk_AI: the moderation decision engine (moderation.py), the cached *)
(* transcribe / transcribe-and-moderate services (fast_transcription.py,   *)
(* transcription_with_moderation.py) and the transcription orchestrator    *)
(* (transcription.py).                                                     *)
(*                                                                         *)
(* A text is a sequence of tokens: a token is a word or the blank token    *)
(* " " (a run of whitespace); consecutive words are separated by a single  *)
(* space.  Scores are integers in units of 10^-5, times are whole seconds. *)
(***************************************************************************)
EXTENDS Integers, Sequences, FiniteSets, TLC

VARIABLES
    now,                      \* time.time()
    fs,                       \* the file system: path -> Missing or [size, mtime]
    tm_transcription_cache,   \* transcription_with_moderation._transcription_cache
    tm_moderation_cache,      \* transcription_with_moderation._moderation_cache
    tm_cache_timestamps,      \* transcription_with_moderation._cache_timestamps
    ft_transcription_cache,   \* fast_transcription._transcription_cache
    ft_cache_timestamps,      \* fast_transcription._cache_timestamps
    pc,                       \* position of the request in flight: "idle", "stt", "mod"
    svc,                      \* entry point of the current / last request
    req,                      \* its request object
    attempt,                  \* loop variable of the retry loop of transcribe_audio
    processed,                \* processed_file_path of transcribe_audio: "none", "original", "temp"
    temp_on_disk,             \* a preprocessed temporary copy exists on disk
    tr,                       \* transcription_result held by the cached service
    result,                   \* value returned by the last finished request
    stt_calls,                \* speech-to-text provider calls made by the current / last request
    stt_log,                  \* outcomes of those calls, in order
    segments,                 \* segments of the provider response of the current / last request
    confidence_score,         \* confidence_score of transcribe_audio, in thousandths
    slept,                    \* seconds slept by the retry loop of the current / last request
    cls_calls,                \* classifier calls made by the current / last decision
    cls_resp,                 \* outcome of the classifier call of that decision
    pat_runs,                 \* pattern-matcher runs of the current / last decision
    adapter,                  \* what openai_context_analysis returned in that decision
    decision,                 \* the last moderation decision: entry point, text, verdict
    lookup,                   \* the last cache lookup: key, time, what storage held, what it returned
    tkey,                     \* transcription cache key looked up by the current / last request
    done_at,                  \* time at which the last request returned
    nreq,                     \* number of requests started
    threads                   \* cache operations run by threads: kind, position, locals

vars == <<now, fs, tm_transcription_cache, tm_moderation_cache, tm_cache_timestamps,
          ft_transcription_cache, ft_cache_timestamps, pc, svc, req, attempt, processed,
          temp_on_disk, tr, result, stt_calls, stt_log,
                segments, confidence_score, slept, cls_calls, cls_resp,
          pat_runs, adapter, decision, lookup, tkey, done_at, nreq, threads>>

cache_vars == <<tm_transcription_cache, tm_moderation_cache, tm_cache_timestamps,
                ft_transcription_cache, ft_cache_timestamps>>

(***************************************************************************)
(* Bounds of the model.                                                    *)
(***************************************************************************)
MaxTextLen == 2      \* longest text given to the decision engine
MaxScored == 1       \* most categories present in a provider score map
MaxNow == 5400       \* the clock stops advancing here
MaxRequests == 2     \* requests started in one behaviour
MaxSegments == 2     \* most segments in a speech-to-text response

(***************************************************************************)
(* Python values.                                                          *)
(***************************************************************************)
None == [none |-> TRUE]
EmptyDict == [k \in {} |-> FALSE]

\* dict.get(key, default)
Get(d, k, default) == IF k \in DOMAIN d THEN d[k] ELSE default

\* dict[key] = value
Put(d, k, v) == [x \in DOMAIN d \cup {k} |-> IF x = k THEN v ELSE d[x]]

\* dict.pop(key, None) for every key of ks
PopAll(d, ks) == [x \in DOMAIN d \ ks |-> d[x]]

(***************************************************************************)
(* Texts.                                                                  *)
(***************************************************************************)
Blank == " "
Vocab == {Blank, "hi", "fuck", "FUCK", "tonight", "want", "ugly"}

TextsUpTo(n) == UNION {[1..k -> Vocab] : k \in 0..n}
Texts == TextsUpTo(MaxTextLen)

\* str.lower() on one token
LowerToken(tok) == IF tok = "FUCK" THEN "fuck" ELSE tok

\* str.lower()
Lower(text) == [i \in DOMAIN text |-> LowerToken(text[i])]

\* str.strip(): drop leading and trailing whitespace
RECURSIVE LStrip(_)
LStrip(text) ==
    IF text # <<>> /\ Head(text) = Blank THEN LStrip(Tail(text)) ELSE text

RECURSIVE RStrip(_)
RStrip(text) ==
    IF text # <<>> /\ text[Len(text)] = Blank
    THEN RStrip(SubSeq(text, 1, Len(text) - 1))
    ELSE text

Strip(text) == RStrip(LStrip(text))

\* `not text or not text.strip()`
IsBlankText(text) == text = <<>> \/ Strip(text) = <<>>

(***************************************************************************)
(* Pattern Matcher (moderation.check_custom_patterns_only).                *)
(* A pattern \b(w1|w2)\b is [word |-> {w1, w2}, then |-> {}]; a pattern    *)
(* \b(w1|w2)\b.*\b(v1|v2)\b is [word |-> {w1, w2}, then |-> {v1, v2}].     *)
(* The tables list the patterns that can match a text over Vocab.          *)
(***************************************************************************)
WordPat(ws) == [word |-> ws, then |-> {}]
ThenPat(ws, vs) == [word |-> ws, then |-> vs]

INAPPROPRIATE_PATTERNS ==
    << WordPat({"fuck", "fucking", "fucked"}),
       ThenPat({"desire", "want", "need"}, {"you"}) >>

suggestive_indicators ==
    << ThenPat({"tonight"}, {"want"}) >>

BODY_SHAMING_PATTERNS == << WordPat({"ugly"}) >>
EMOTIONAL_ABUSE_PATTERNS == << WordPat({"worthless"}) >>
RACISM_HATE_SPEECH_PATTERNS == << WordPat({"vermin"}) >>
TRANSACTIONAL_DATING_PATTERNS == << WordPat({"allowance"}) >>
SEXISM_MISOGYNY_TRANSPHOBIA_PATTERNS == << WordPat({"bimbo"}) >>

\* re.search(pattern, text, re.IGNORECASE)
re_search(pattern, text) ==
    IF pattern.then = {}
    THEN \E i \in DOMAIN text : LowerToken(text[i]) \in pattern.word
    ELSE \E i \in DOMAIN text : \E j \in DOMAIN text :
            /\ i < j
            /\ LowerToken(text[i]) \in pattern.word
            /\ LowerToken(text[j]) \in pattern.then

\* any(re.search(pattern, text_lower, re.IGNORECASE) for pattern in patterns)
AnyMatch(patterns, text) ==
    \E k \in DOMAIN patterns : re_search(patterns[k], Lower(text))

\* the seven rule groups in the order the function evaluates them
PatternGroups ==
    << [flag |-> "explicit_content", patterns |-> INAPPROPRIATE_PATTERNS,
        description |-> "Explicit sexual/inappropriate language detected"],
       [flag |-> "suggestive_context", patterns |-> suggestive_indicators,
        description |-> "Suggestive/sexual context detected"],
       [flag |-> "body_shaming", patterns |-> BODY_SHAMING_PATTERNS,
        description |-> "Body shaming/appearance-based harassment detected"],
       [flag |-> "emotional_abuse", patterns |-> EMOTIONAL_ABUSE_PATTERNS,
        description |-> "Emotional abuse/manipulation detected"],
       [flag |-> "racism_hate_speech", patterns |-> RACISM_HATE_SPEECH_PATTERNS,
        description |-> "Racism/hate speech detected"],
       [flag |-> "transactional_dating", patterns |-> TRANSACTIONAL_DATING_PATTERNS,
        description |-> "Transactional/sugar-dating language detected"],
       [flag |-> "sexism_misogyny_transphobia", patterns |-> SEXISM_MISOGYNY_TRANSPHOBIA_PATTERNS,
        description |-> "Sexism/misogyny/transphobia detected"] >>

GroupFlags == {PatternGroups[g].flag : g \in DOMAIN PatternGroups}

\* a reason string: a fixed message, the parts joined into it, and the
\* custom-threshold violations rendered into it
Reason(msg, parts, violations) == [msg |-> msg, parts |-> parts, violations |-> violations]

\* reasons.append(...) for every group that matched, in evaluation order
RECURSIVE MatchedDescriptions(_, _)
MatchedDescriptions(text, g) ==
    IF g > Len(PatternGroups) THEN <<>>
    ELSE (IF AnyMatch(PatternGroups[g].patterns, text)
          THEN <<PatternGroups[g].description>> ELSE <<>>)
         \o MatchedDescriptions(text, g + 1)

\* a matcher that stops at the first group that matches
check_custom_patterns_only_early_exit(text) ==
    LET matching == {g \in DOMAIN PatternGroups : AnyMatch(PatternGroups[g].patterns, text)}
        evaluated == {g \in DOMAIN PatternGroups : \A h \in matching : g <= h}
        custom_flags ==
            [f \in {PatternGroups[g].flag : g \in evaluated} |->
                \E g \in matching : PatternGroups[g].flag = f]
    IN [is_flagged |-> matching # {},
        custom_flags |-> custom_flags,
        reason |-> IF matching # {}
                   THEN Reason("", <<PatternGroups[CHOOSE g \in matching :
                                        \A h \in matching : g <= h].description>>, <<>>)
                   ELSE Reason("No custom pattern violations detected", <<>>, <<>>)]

check_custom_patterns_only(text) ==
    LET custom_flags ==
            [f \in GroupFlags |->
                \E g \in DOMAIN PatternGroups :
                    PatternGroups[g].flag = f /\ AnyMatch(PatternGroups[g].patterns, text)]
        reasons == MatchedDescriptions(text, 1)
    IN [is_flagged |-> \E f \in GroupFlags : Get(custom_flags, f, FALSE),
        custom_flags |-> custom_flags,
        reason |-> IF reasons # <<>>
                   THEN Reason("", reasons, <<>>)
                   ELSE Reason("No custom pattern violations detected", <<>>, <<>>)]

(***************************************************************************)
(* Content Classifier Adapter (moderation.openai_context_analysis).        *)
(***************************************************************************)
\* CUSTOM_THRESHOLDS.items(), in insertion order; cutoffs in units of 10^-5
CUSTOM_THRESHOLDS ==
    << [category |-> "sexual", threshold |-> 5000],
       [category |-> "harassment", threshold |-> 5000],
       [category |-> "hate", threshold |-> 5000],
       [category |-> "violence", threshold |-> 10000],
       [category |-> "sexual_minors", threshold |-> 1000],
       [category |-> "sexual/minors", threshold |-> 1000] >>

\* what the provider may answer: a failure of the call, or a native flag and
\* a score map over some of its categories
ProviderCategories == {"sexual", "violence", "sexual_minors", "sexual/minors", "self_harm"}
ScoreVals == {1000, 1001, 5000, 5005, 10001}
ScoreMaps ==
    UNION {[S -> ScoreVals] :
              S \in {T \in SUBSET ProviderCategories : Cardinality(T) <= MaxScored}}
ClassifierErrors == {"Connection error.", "Rate limit reached"}

ProviderResponse(flagged, scores) ==
    [ok |-> TRUE, flagged |-> flagged,
     categories |-> [c \in DOMAIN scores |-> flagged],
     category_scores |-> scores]
ProviderFailure(msg) == [ok |-> FALSE, error |-> msg]

ClassifierOutcomes ==
    {ProviderResponse(f, m) : f \in BOOLEAN, m \in ScoreMaps}
        \cup {ProviderFailure(e) : e \in ClassifierErrors}

\* round n / d to the nearest integer, ties to even (decimal formatting)
RoundHalfEven(n, d) ==
    LET q == n \div d
        r == n % d
    IN IF 2 * r < d THEN q
       ELSE IF 2 * r > d THEN q + 1
       ELSE IF q % 2 = 0 THEN q ELSE q + 1

\* the score formatted as a fraction, f"{score:.2f}"
FormatPercent_fraction(score) == RoundHalfEven(score, 1000)

\* f"{score:.2%}": the score as a percentage with two decimals, in
\* hundredths of a percent
FormatPercent(score) == RoundHalfEven(score, 10)

\* f"{category} ({score:.2%})"
RenderViolation(category, score) == [category |-> category, percent |-> FormatPercent(score)]

\* a cutoff that is inclusive
RECURSIVE FlaggedCategories_inclusive(_, _)
FlaggedCategories_inclusive(scores, k) ==
    IF k > Len(CUSTOM_THRESHOLDS) THEN <<>>
    ELSE LET category == CUSTOM_THRESHOLDS[k].category
             score == Get(scores, category, 0)
         IN (IF score >= CUSTOM_THRESHOLDS[k].threshold
             THEN <<RenderViolation(category, score)>> ELSE <<>>)
            \o FlaggedCategories_inclusive(scores, k + 1)

\* the loop over CUSTOM_THRESHOLDS.items() that fills flagged_categories
RECURSIVE FlaggedCategories(_, _)
FlaggedCategories(scores, k) ==
    IF k > Len(CUSTOM_THRESHOLDS) THEN <<>>
    ELSE LET category == CUSTOM_THRESHOLDS[k].category
             score == Get(scores, category, 0)
         IN (IF score > CUSTOM_THRESHOLDS[k].threshold
             THEN <<RenderViolation(category, score)>> ELSE <<>>)
            \o FlaggedCategories(scores, k + 1)

\* an adapter that fails closed
openai_context_analysis_fail_closed(text, outcome) ==
    IF outcome.ok
    THEN LET flagged_categories == FlaggedCategories(outcome.category_scores, 1)
         IN [is_flagged |-> outcome.flagged \/ Len(flagged_categories) > 0,
             openai_data |->
                 [categories |-> outcome.categories,
                  category_scores |-> outcome.category_scores,
                  openai_flagged |-> outcome.flagged,
                  custom_threshold_violations |-> flagged_categories],
             reason |-> Reason("OpenAI detected harmful context/intent", <<>>,
                               flagged_categories)]
    ELSE [is_flagged |-> TRUE,
          openai_data |-> EmptyDict,
          reason |-> Reason("Context analysis failed", <<outcome.error>>, <<>>)]

\* an adapter that returns the provider's own flag
openai_context_analysis_provider_flag(text, outcome) ==
    IF outcome.ok
    THEN LET flagged_categories == FlaggedCategories(outcome.category_scores, 1)
         IN [is_flagged |-> outcome.flagged,
             openai_data |->
                 [categories |-> outcome.categories,
                  category_scores |-> outcome.category_scores,
                  openai_flagged |-> outcome.flagged,
                  custom_threshold_violations |-> flagged_categories],
             reason |-> Reason("OpenAI detected harmful context/intent", <<>>,
                               flagged_categories)]
    ELSE [is_flagged |-> FALSE,
          openai_data |-> EmptyDict,
          reason |-> Reason("Context analysis failed", <<outcome.error>>, <<>>)]

openai_context_analysis(text, outcome) ==
    IF outcome.ok
    THEN LET flagged_categories == FlaggedCategories(outcome.category_scores, 1)
         IN [is_flagged |-> outcome.flagged \/ Len(flagged_categories) > 0,
             openai_data |->
                 [categories |-> outcome.categories,
                  category_scores |-> outcome.category_scores,
                  openai_flagged |-> outcome.flagged,
                  custom_threshold_violations |-> flagged_categories],
             reason |-> Reason("OpenAI detected harmful context/intent", <<>>,
                               flagged_categories)]
    ELSE [is_flagged |-> FALSE,
          openai_data |-> EmptyDict,
          reason |-> Reason("Context analysis failed", <<outcome.error>>, <<>>)]

(***************************************************************************)
(* Moderation Decision Engine (moderation.moderate_text).                  *)
(* The value has the verdict and what the decision did to reach it.        *)
(***************************************************************************)
\* a decision that runs the classifier whatever the pattern matcher found
moderate_text_no_short_circuit(transcribed_text, outcome) ==
    LET custom == check_custom_patterns_only(transcribed_text)
        openai == openai_context_analysis(transcribed_text, outcome)
    IN [verdict |->
            [text |-> transcribed_text,
             flagged |-> custom.is_flagged \/ openai.is_flagged,
             detection_method |-> IF custom.is_flagged THEN "custom_patterns"
                                  ELSE IF openai.is_flagged
                                  THEN "openai_context_analysis" ELSE "clean",
             openai_flagged |-> Get(openai.openai_data, "openai_flagged", FALSE),
             custom_flagged |-> custom.is_flagged,
             custom_flags |-> custom.custom_flags,
             reason |-> IF custom.is_flagged THEN custom.reason
                        ELSE IF openai.is_flagged THEN openai.reason
                        ELSE Reason("Content appears safe after full analysis", <<>>, <<>>),
             api_call_made |-> TRUE,
             categories |-> Get(openai.openai_data, "categories", EmptyDict),
             category_scores |-> Get(openai.openai_data, "category_scores", EmptyDict)],
        pat_runs |-> 1, cls_calls |-> 1, cls_resp |-> outcome, adapter |-> openai]

\* a decision that calls the classifier again after a failed call
moderate_text_retrying(transcribed_text, outcome) ==
    LET custom == check_custom_patterns_only(transcribed_text)
        full == moderate_text_no_short_circuit(transcribed_text, outcome)
    IN IF custom.is_flagged
       THEN [verdict |-> [text |-> transcribed_text,
                          flagged |-> TRUE,
                          custom_flags |-> custom.custom_flags],
             pat_runs |-> 1, cls_calls |-> 0, cls_resp |-> None, adapter |-> None]
       ELSE [full EXCEPT !.cls_calls = IF outcome.ok THEN 1 ELSE 2]

moderate_text(transcribed_text, outcome) ==
    LET custom == check_custom_patterns_only(transcribed_text)
        openai == openai_context_analysis(transcribed_text, outcome)
    IN IF custom.is_flagged
       THEN [verdict |-> [text |-> transcribed_text,
                          flagged |-> TRUE,
                          custom_flags |-> custom.custom_flags],
             pat_runs |-> 1, cls_calls |-> 0, cls_resp |-> None, adapter |-> None]
       ELSE [verdict |->
                [text |-> transcribed_text,
                 flagged |-> openai.is_flagged,
                 detection_method |-> IF openai.is_flagged
                                      THEN "openai_context_analysis" ELSE "clean",
                 openai_flagged |-> Get(openai.openai_data, "openai_flagged", FALSE),
                 custom_flagged |-> FALSE,
                 custom_flags |-> custom.custom_flags,
                 reason |-> IF openai.is_flagged
                            THEN openai.reason
                            ELSE Reason("Content appears safe after full analysis", <<>>, <<>>),
                 api_call_made |-> TRUE,
                 categories |-> Get(openai.openai_data, "categories", EmptyDict),
                 category_scores |-> Get(openai.openai_data, "category_scores", EmptyDict)],
             pat_runs |-> 1, cls_calls |-> 1, cls_resp |-> outcome, adapter |-> openai]

(***************************************************************************)
(* Files and requests.                                                     *)
(***************************************************************************)
SUPPORTED_FORMATS == {".mp3", ".mp4", ".mpeg", ".mpga", ".m4a", ".wav", ".webm"}
MAX_FILE_SIZE == 26214400
max_retries == 2

\* the audio references of the requests: a valid file of exactly the size
\* bound, one byte more, an unsupported extension, a file that is not there
Paths == {"a.wav", "big.WAV", "b.txt", "gone.wav"}
Missing == [missing |-> TRUE]
File(size, mtime) == [missing |-> FALSE, size |-> size, mtime |-> mtime]
InitialFiles ==
    [p \in Paths |->
        IF p = "a.wav" THEN File(MAX_FILE_SIZE, 0)
        ELSE IF p = "big.WAV" THEN File(MAX_FILE_SIZE + 1, 0)
        ELSE IF p = "b.txt" THEN File(16000, 0)
        ELSE Missing]

\* Path(file_path).suffix.lower()
Suffix(path) == IF path = "b.txt" THEN ".txt" ELSE ".wav"

\* request parameters; a language of None is written "None"
Languages == {"None", "en"}
TranscriptionRequest(path, language) ==
    [audio_file_path |-> path, language |-> language, prompt |-> "None",
     response_format |-> "text", temperature |-> 0]
\* the same request with a prompt that guides the transcription
Prompts == {"None", "Names: Ann, Bob"}
PromptedRequest(path, language, prompt) ==
    [TranscriptionRequest(path, language) EXCEPT !.prompt = prompt]

\* what the speech-to-text provider may answer to one call
Transcripts == {<<>>, <<Blank>>, <<"hi">>, <<"fuck">>}
\* the segments of a verbose response.  Log-probabilities and confidence
\* scores are in thousandths.  A segment has a numeric avg_logprob, an
\* avg_logprob that is not a number, or none; a response has a list of
\* segments or no segments attribute.
LogProbs == {-1500, -1000, -400, 0, 300}
Segment(avg_logprob) == [has_avg_logprob |-> TRUE, numeric |-> TRUE, avg_logprob |-> avg_logprob]
SegmentWithout == [has_avg_logprob |-> FALSE, numeric |-> FALSE, avg_logprob |-> 0]
SegmentMalformed == [has_avg_logprob |-> TRUE, numeric |-> FALSE, avg_logprob |-> 0]
Segments == {Segment(x) : x \in LogProbs} \cup {SegmentWithout, SegmentMalformed}
SegmentLists == UNION {[1..n -> Segments] : n \in 0..MaxSegments}
NoSegments == [present |-> FALSE, list |-> <<>>]
SegmentsOf(list) == [present |-> TRUE, list |-> list]

SttSuccess(text) == [kind |-> "ok", text |-> text, language |-> "en", segments |-> NoSegments]
SttScored(text, list) ==
    [kind |-> "ok", text |-> text, language |-> "en", segments |-> SegmentsOf(list)]
SttFailure(kind) == [kind |-> kind, text |-> <<>>, language |-> "None", segments |-> NoSegments]
SttOutcomes ==
    {SttSuccess(t) : t \in Transcripts}
        \cup {SttFailure(k) : k \in {"RateLimitError", "APITimeoutError", "APIError", "Exception"}}
ScoredOutcomes == {SttScored(<<"hi">>, list) : list \in SegmentLists}

\* _calculate_confidence_score
default_confidence == 850

\* the loop over the segments: total_confidence and segment_count, or the
\* exception raised by adding a value that is not a number
RECURSIVE SumSegments(_, _, _)
SumSegments(list, total_confidence, segment_count) ==
    IF list = <<>>
    THEN [raised |-> FALSE, total_confidence |-> total_confidence,
          segment_count |-> segment_count]
    ELSE IF ~Head(list).has_avg_logprob
    THEN SumSegments(Tail(list), total_confidence, segment_count)
    ELSE IF ~Head(list).numeric
    THEN [raised |-> TRUE, total_confidence |-> total_confidence,
          segment_count |-> segment_count]
    ELSE SumSegments(Tail(list), total_confidence + Head(list).avg_logprob,
                     segment_count + 1)

Max(a, b) == IF a > b THEN a ELSE b
Min(a, b) == IF a < b THEN a ELSE b

\* a score computed without the clamp
calculate_confidence_score_unclamped(transcript_response) ==
    IF transcript_response.present /\ transcript_response.list # <<>>
    THEN LET s == SumSegments(transcript_response.list, 0, 0)
         IN IF s.raised THEN 850
            ELSE IF s.segment_count > 0
            THEN (s.total_confidence \div s.segment_count) + 1000
            ELSE default_confidence
    ELSE default_confidence

\* the division is rounded down to a thousandth
calculate_confidence_score(transcript_response) ==
    IF transcript_response.present /\ transcript_response.list # <<>>
    THEN LET s == SumSegments(transcript_response.list, 0, 0)
         IN IF s.raised THEN 850
            ELSE IF s.segment_count > 0
            THEN LET avg_confidence == s.total_confidence \div s.segment_count
                 IN Max(0, Min(1000, avg_confidence + 1000))
            ELSE default_confidence
    ELSE default_confidence

\* the classifier answers drawn while a transcript is moderated
PipelineOutcomes ==
    {ProviderFailure("Connection error."),
     ProviderResponse(FALSE, EmptyDict),
     ProviderResponse(TRUE, EmptyDict),
     ProviderResponse(FALSE, [c \in {"sexual"} |-> 5005])}
\* the provider finds nothing to flag
NotFlagged == ProviderResponse(FALSE, EmptyDict)

(***************************************************************************)
(* Response and error objects.                                             *)
(***************************************************************************)
TranscriptionResponse(transcript, file_path, language_detected, duration, response_format) ==
    [success |-> TRUE, transcript |-> transcript, file_path |-> file_path,
     language_detected |-> language_detected, duration |-> duration,
     response_format |-> response_format]

TranscriptionError(error_type, error_message, file_path) ==
    [success |-> FALSE, error_type |-> error_type, error_message |-> error_message,
     file_path |-> file_path]

LocalTranscriptionError(error_type, error_message, file_path, stage) ==
    [success |-> FALSE, error_type |-> error_type, error_message |-> error_message,
     file_path |-> file_path, stage |-> stage]

TranscriptionWithModerationError(error_type, error_message, file_path, stage) ==
    [success |-> FALSE, error_type |-> error_type, error_message |-> error_message,
     file_path |-> file_path, stage |-> stage]

\* a response that reports every transcript as safe
TranscriptionWithModerationResponse_safe(t, moderation_flagged, moderation_reason, is_safe) ==
    [success |-> TRUE, transcript |-> t.transcript, file_path |-> t.file_path,
     language_detected |-> t.language_detected, duration |-> t.duration,
     response_format |-> t.response_format, moderation_flagged |-> moderation_flagged,
     moderation_reason |-> moderation_reason, is_safe |-> TRUE]

TranscriptionWithModerationResponse(t, moderation_flagged, moderation_reason, is_safe) ==
    [success |-> TRUE, transcript |-> t.transcript, file_path |-> t.file_path,
     language_detected |-> t.language_detected, duration |-> t.duration,
     response_format |-> t.response_format, moderation_flagged |-> moderation_flagged,
     moderation_reason |-> moderation_reason, is_safe |-> is_safe]

(***************************************************************************)
(* Result Cache (the module-level dictionaries of fast_transcription.py    *)
(* and transcription_with_moderation.py).                                  *)
(***************************************************************************)
ENABLE_CACHING == TRUE
ENABLE_FAST_MODERATION == TRUE
CACHE_MAX_AGE == 3600
MAX_CACHE_SIZE == 1000

\* _get_file_info: (st_size, st_mtime), or (0, 0) when stat fails
get_file_info(file_path) ==
    IF fs[file_path].missing THEN <<0, 0>>
    ELSE <<fs[file_path].size, fs[file_path].mtime>>

\* _get_file_hash: md5 of "path:size:mtime", taken as one-to-one
get_file_hash(file_path, file_size, file_mtime) == <<file_path, file_size, file_mtime>>

\* a key that also depends on the prompt
TranscriptionKey_with_prompt(file_path, request_params) ==
    LET info == get_file_info(file_path)
    IN <<"transcription", get_file_hash(file_path, info[1], info[2]),
         <<request_params.language, request_params.response_format,
           request_params.temperature, request_params.prompt>> >>

\* cache_key of _get_cached_transcription / _cache_transcription
TranscriptionKey(file_path, request_params) ==
    LET info == get_file_info(file_path)
    IN <<"transcription", get_file_hash(file_path, info[1], info[2]),
         <<request_params.language, request_params.response_format,
           request_params.temperature>> >>

\* a moderation key built like the transcription key of one request
ModerationKey_shared(text) ==
    TranscriptionKey("a.wav", [language |-> "None", response_format |-> "text",
                               temperature |-> 0])

\* cache_key of _get_cached_moderation / _cache_moderation: md5 of the text
ModerationKey(text) == <<"moderation", text, <<>> >>

\* a validity test that still accepts an entry aged exactly CACHE_MAX_AGE
tm_is_cache_valid_inclusive(timestamps, cache_key) ==
    /\ ENABLE_CACHING
    /\ cache_key \in DOMAIN timestamps
    /\ (now - timestamps[cache_key]) <= CACHE_MAX_AGE

\* transcription_with_moderation._is_cache_valid
tm_is_cache_valid(timestamps, cache_key) ==
    /\ ENABLE_CACHING
    /\ cache_key \in DOMAIN timestamps
    /\ (now - timestamps[cache_key]) < CACHE_MAX_AGE

\* transcription_with_moderation._get_cached_transcription
tm_get_cached_transcription(c, file_path, request_params) ==
    LET cache_key == TranscriptionKey(file_path, request_params)
    IN IF /\ ENABLE_CACHING
          /\ tm_is_cache_valid(c.timestamps, cache_key)
          /\ cache_key \in DOMAIN c.transcription
       THEN c.transcription[cache_key]
       ELSE None

\* transcription_with_moderation._get_cached_moderation
tm_get_cached_moderation(c, text) ==
    LET cache_key == ModerationKey(text)
    IN IF /\ ENABLE_CACHING
          /\ tm_is_cache_valid(c.timestamps, cache_key)
          /\ cache_key \in DOMAIN c.moderation
       THEN c.moderation[cache_key]
       ELSE None

\* fast_transcription._is_cache_valid
ft_is_cache_valid(timestamps, cache_key) ==
    /\ ENABLE_CACHING
    /\ cache_key \in DOMAIN timestamps
    /\ (now - timestamps[cache_key]) < CACHE_MAX_AGE

\* fast_transcription._get_cached_transcription
ft_get_cached_transcription(c, file_path, request_params) ==
    LET cache_key == TranscriptionKey(file_path, request_params)
    IN IF /\ ENABLE_CACHING
          /\ ft_is_cache_valid(c.timestamps, cache_key)
          /\ cache_key \in DOMAIN c.transcription
       THEN c.transcription[cache_key]
       ELSE None

\* what a lookup saw in storage and what it returned
LookupRecord(module, cache, timestamps, cache_key, returned) ==
    [module |-> module, key |-> cache_key, at |-> now,
     stored |-> cache_key \in DOMAIN cache,
     stamped |-> cache_key \in DOMAIN timestamps,
     inserted_at |-> Get(timestamps, cache_key, 0),
     returned |-> returned]

\* a sweep that evicts every entry older than the current second
tm_cleanup_old_cache_entries_evicting(c) ==
    LET expired_keys == {key \in DOMAIN c.timestamps : (now - c.timestamps[key]) > 0}
    IN [timestamps |-> PopAll(c.timestamps, expired_keys),
        transcription |-> PopAll(c.transcription,
                                 {key \in expired_keys : key[1] = "transcription"}),
        moderation |-> PopAll(c.moderation,
                              {key \in expired_keys : key[1] = "moderation"})]

\* a sweep that pops the timestamps and leaves the values
tm_cleanup_old_cache_entries_stamps_only(c) ==
    LET expired_keys == {key \in DOMAIN c.timestamps :
                            (now - c.timestamps[key]) > CACHE_MAX_AGE}
    IN [c EXCEPT !.timestamps = PopAll(c.timestamps, expired_keys)]

\* transcription_with_moderation._cleanup_old_cache_entries
tm_cleanup_old_cache_entries(c) ==
    LET expired_keys == {key \in DOMAIN c.timestamps :
                            (now - c.timestamps[key]) > CACHE_MAX_AGE}
    IN [timestamps |-> PopAll(c.timestamps, expired_keys),
        transcription |-> PopAll(c.transcription,
                                 {key \in expired_keys : key[1] = "transcription"}),
        moderation |-> PopAll(c.moderation,
                              {key \in expired_keys : key[1] = "moderation"})]

\* a put that keeps the timestamp of an entry that is already there
tm_cache_transcription_keeps_stamp(c, cache_key, value) ==
    [c EXCEPT !.transcription = Put(c.transcription, cache_key, value),
              !.timestamps = Put(c.timestamps, cache_key,
                                 Get(c.timestamps, cache_key, now))]

\* transcription_with_moderation._cache_transcription
tm_cache_transcription(c, cache_key, value) ==
    IF ~ENABLE_CACHING THEN c
    ELSE LET stored == [c EXCEPT !.transcription = Put(c.transcription, cache_key, value),
                                 !.timestamps = Put(c.timestamps, cache_key, now)]
         IN IF Cardinality(DOMAIN stored.transcription) > MAX_CACHE_SIZE
            THEN tm_cleanup_old_cache_entries(stored)
            ELSE stored

\* transcription_with_moderation._cache_moderation
tm_cache_moderation(c, text, value) ==
    IF ~ENABLE_CACHING THEN c
    ELSE LET stored == [c EXCEPT !.moderation = Put(c.moderation, ModerationKey(text), value),
                                 !.timestamps = Put(c.timestamps, ModerationKey(text), now)]
         IN IF Cardinality(DOMAIN stored.moderation) > MAX_CACHE_SIZE
            THEN tm_cleanup_old_cache_entries(stored)
            ELSE stored

\* fast_transcription._cleanup_old_cache_entries
ft_cleanup_old_cache_entries(c) ==
    LET expired_keys == {key \in DOMAIN c.timestamps :
                            /\ (now - c.timestamps[key]) > CACHE_MAX_AGE
                            /\ key[1] = "transcription"}
    IN [timestamps |-> PopAll(c.timestamps, expired_keys),
        transcription |-> PopAll(c.transcription, expired_keys)]

\* a store that records the value without its timestamp
ft_cache_transcription_unstamped(c, cache_key, value) ==
    IF ~ENABLE_CACHING THEN c
    ELSE [c EXCEPT !.transcription = Put(c.transcription, cache_key, value)]

\* fast_transcription._cache_transcription
ft_cache_transcription(c, cache_key, value) ==
    IF ~ENABLE_CACHING THEN c
    ELSE LET stored == [c EXCEPT !.transcription = Put(c.transcription, cache_key, value),
                                 !.timestamps = Put(c.timestamps, cache_key, now)]
         IN IF Cardinality(DOMAIN stored.transcription) > MAX_CACHE_SIZE
            THEN ft_cleanup_old_cache_entries(stored)
            ELSE stored

\* the dictionaries of each module as one value
TmCaches == [transcription |-> tm_transcription_cache, moderation |-> tm_moderation_cache,
             timestamps |-> tm_cache_timestamps]
\* fast_transcription reading and writing the dictionaries of the other module
FtCaches_shared ==
    [transcription |-> tm_transcription_cache, timestamps |-> tm_cache_timestamps]
FtCaches == [transcription |-> ft_transcription_cache, timestamps |-> ft_cache_timestamps]

(***************************************************************************)
(* Decision engine entry point of the pipeline                             *)
(* (transcription_with_moderation._fast_moderate_text).                    *)
(***************************************************************************)
fast_moderate_text(text, outcome, c) ==
    LET cached_result == tm_get_cached_moderation(c, text)
        looked == LookupRecord("tm", c.moderation, c.timestamps, ModerationKey(text),
                               cached_result)
        custom == check_custom_patterns_only(text)
        flagged_result == [text |-> text, flagged |-> TRUE, reason |-> custom.reason,
                           custom_flagged |-> TRUE, custom_flags |-> custom.custom_flags]
        full == moderate_text(text, outcome)
    IN IF IsBlankText(text)
       THEN [verdict |-> [text |-> text, flagged |-> FALSE,
                          reason |-> Reason("Empty text", <<>>, <<>>),
                          custom_flagged |-> FALSE, custom_flags |-> EmptyDict],
             caches |-> c, lookup |-> lookup,
             pat_runs |-> 0, cls_calls |-> 0, cls_resp |-> None, adapter |-> None]
       ELSE IF cached_result # None
       THEN [verdict |-> cached_result, caches |-> c, lookup |-> looked,
             pat_runs |-> 0, cls_calls |-> 0, cls_resp |-> None, adapter |-> None]
       ELSE IF ENABLE_FAST_MODERATION /\ custom.is_flagged
       THEN [verdict |-> flagged_result,
             caches |-> tm_cache_moderation(c, text, flagged_result), lookup |-> looked,
             pat_runs |-> 1, cls_calls |-> 0, cls_resp |-> None, adapter |-> None]
       ELSE [verdict |-> full.verdict,
             caches |-> tm_cache_moderation(c, text, full.verdict), lookup |-> looked,
             pat_runs |-> (IF ENABLE_FAST_MODERATION THEN 1 ELSE 0) + full.pat_runs,
             cls_calls |-> full.cls_calls, cls_resp |-> full.cls_resp,
             adapter |-> full.adapter]

(***************************************************************************)
(* Transcription Orchestrator (transcription.TranscriptionService).        *)
(***************************************************************************)
Raised(exc, msg) == [exc |-> exc, msg |-> msg]
NoException == Raised("none", <<>>)

\* a validation without the size bound
validate_audio_file_unbounded(file_path) ==
    IF fs[file_path].missing
    THEN Raised("FileNotFoundError", <<"Audio file not found: ", file_path>>)
    ELSE IF Suffix(file_path) \notin SUPPORTED_FORMATS
    THEN Raised("ValueError", <<"Unsupported audio format: ", Suffix(file_path)>>)
    ELSE NoException

\* _validate_audio_file: the exception it raises, if any
validate_audio_file(file_path) ==
    IF fs[file_path].missing
    THEN Raised("FileNotFoundError", <<"Audio file not found: ", file_path>>)
    ELSE IF Suffix(file_path) \notin SUPPORTED_FORMATS
    THEN Raised("ValueError", <<"Unsupported audio format: ", Suffix(file_path)>>)
    ELSE IF fs[file_path].size > MAX_FILE_SIZE
    THEN Raised("ValueError", <<"File size exceeds maximum allowed size (25MB)">>)
    ELSE NoException

\* _preprocess_audio: the original file with an estimated duration when the
\* audio cannot be loaded, a temporary processed copy with the measured one,
\* or the original file with the measured duration when the processing or
\* the export raised; `written` tells whether the export had created its
\* output file by then
PreprocessOutcomes ==
    {[path |-> "original", measured |-> 0, written |-> FALSE],
     [path |-> "temp", measured |-> 5, written |-> TRUE],
     [path |-> "original", measured |-> 5, written |-> FALSE],
     [path |-> "original", measured |-> 5, written |-> TRUE]}
preprocess_audio(file_path, outcome) ==
    IF outcome.path = "original" /\ outcome.measured = 0
    THEN [path |-> "original", duration |-> Max(1, fs[file_path].size \div 16000)]
    ELSE [path |-> outcome.path, duration |-> outcome.measured]

\* class hierarchy of the provider's exceptions
IsOpenAIError(exc) == exc \in {"RateLimitError", "APITimeoutError", "APIError"}

\* the except clauses of transcribe_audio
handle_exception(e, file_path) ==
    IF e.exc = "FileNotFoundError"
    THEN TranscriptionError("FileNotFoundError", e.msg, file_path)
    ELSE IF e.exc = "ValueError"
    THEN TranscriptionError("ValidationError", e.msg, file_path)
    ELSE IF IsOpenAIError(e.exc)
    THEN TranscriptionError("OpenAIError", <<"API error: ">> \o e.msg, file_path)
    ELSE TranscriptionError("UnexpectedError",
                            <<"An unexpected error occurred: ">> \o e.msg, file_path)

\* a retry loop that allows one attempt too many
RetriesAfter_one_more(exc, n) ==
    /\ exc \in {"RateLimitError", "APITimeoutError"}
    /\ n <= max_retries

\* one iteration of the retry loop on a failed call: try again or re-raise
RetriesAfter(exc, n) ==
    /\ exc \in {"RateLimitError", "APITimeoutError"}
    /\ n < max_retries

\* time.sleep before the next attempt
wait_time(exc, n) == IF exc = "RateLimitError" THEN (n + 1) * 2 ELSE 0

(***************************************************************************)
(* The state machine.  One request is in flight at a time; it is suspended *)
(* at "stt" before each speech-to-text call and at "mod" before the        *)
(* moderation of its transcript.                                           *)
(***************************************************************************)
TickSteps == {1800}

NoLookup == [module |-> "none", key |-> <<"none", <<>>, <<>> >>, at |-> 0, stored |-> FALSE,
             stamped |-> FALSE, inserted_at |-> 0, returned |-> None]
NoKey == <<"none", <<>>, <<>> >>

\* threads that call the cache functions of transcription_with_moderation,
\* each running one operation
Threads == {"t1", "t2", "t3"}
IdleThread ==
    [kind |-> "none", pc |-> "idle", value |-> None, pending |-> {}, key |-> NoKey,
     outcome |-> "none", got |-> None]

\* confidence_score = 0.85 before a response is examined
NotScored ==
    /\ segments' = NoSegments
    /\ confidence_score' = default_confidence

\* no request has been made yet
NoRequest ==
    /\ fs = InitialFiles
    /\ pc = "idle"
    /\ svc = "none"
    /\ req = None
    /\ attempt = 0
    /\ processed = [path |-> "none", duration |-> 0]
    /\ temp_on_disk = FALSE
    /\ tr = None
    /\ result = None
    /\ stt_calls = 0
    /\ stt_log = <<>>
    /\ segments = NoSegments
    /\ confidence_score = default_confidence
    /\ slept = 0
    /\ cls_calls = 0
    /\ cls_resp = None
    /\ pat_runs = 0
    /\ adapter = None
    /\ decision = None
    /\ lookup = NoLookup
    /\ tkey = NoKey
    /\ done_at = 0
    /\ nreq = 0
    /\ threads = [t \in Threads |-> IdleThread]

Init ==
    /\ now = 0
    /\ tm_transcription_cache = EmptyDict
    /\ tm_moderation_cache = EmptyDict
    /\ tm_cache_timestamps = EmptyDict
    /\ ft_transcription_cache = EmptyDict
    /\ ft_cache_timestamps = EmptyDict
    /\ NoRequest

\* the clock advances between two requests (a request lasts seconds, a step
\* of the clock is half an hour)
Tick ==
    /\ pc = "idle"
    /\ \E d \in TickSteps : now + d <= MaxNow /\ now' = now + d
    /\ UNCHANGED <<fs, cache_vars, pc, svc, req, attempt, processed, temp_on_disk, tr,
                   result, stt_calls, stt_log, segments, confidence_score,
                   slept, cls_calls, cls_resp, pat_runs,
                   adapter, decision, lookup, tkey, done_at, nreq, threads>>

\* a request starts.  The endpoints are coroutines that call the service
\* functions directly, without awaiting them or handing them to a thread: the
\* event loop runs one service call to its return before it starts another.
StartRequest(s, r) ==
    /\ pc = "idle"
    /\ nreq < MaxRequests
    /\ nreq' = nreq + 1
    /\ svc' = s
    /\ req' = r
    /\ UNCHANGED <<now, fs, threads>>


NoDecision ==
    /\ cls_calls' = 0
    /\ cls_resp' = None
    /\ pat_runs' = 0
    /\ adapter' = None
    /\ decision' = None

\* the request returns value r
Return(r) ==
    /\ pc' = "idle"
    /\ result' = r
    /\ done_at' = now

\* moderate_text on the inputs of the cached services, computed once
PipelineModerations ==
    [text \in Transcripts, outcome \in PipelineOutcomes |-> moderate_text(text, outcome)]
\* moderate_text, read from the table where the table has the inputs
ModerationOf(text, outcome) ==
    IF <<text, outcome>> \in DOMAIN PipelineModerations
    THEN PipelineModerations[text, outcome]
    ELSE moderate_text(text, outcome)

\* moderation.moderate_text called by the text-moderation endpoint
ModerateText(text, outcome) ==
    /\ StartRequest("moderate_text", [text |-> text])
    /\ \E m \in {ModerationOf(text, outcome)} :
       /\ Return(m.verdict)
       /\ cls_calls' = m.cls_calls
       /\ cls_resp' = m.cls_resp
       /\ pat_runs' = m.pat_runs
       /\ adapter' = m.adapter
       /\ decision' = [entry |-> "moderate_text", text |-> text, verdict |-> m.verdict]
       /\ stt_calls' = 0
       /\ stt_log' = <<>>
       /\ NotScored
       /\ slept' = 0
       /\ attempt' = 0
       /\ tr' = None
       /\ tkey' = NoKey
       /\ lookup' = NoLookup
       /\ UNCHANGED <<cache_vars, processed, temp_on_disk>>

\* an error object that also reports a verdict on the text it never had
WrapError_with_verdict(service, e, file_path) ==
    [success |-> FALSE, error_type |-> e.error_type,
     error_message |-> <<"Transcription failed: ">> \o e.error_message,
     file_path |-> file_path, stage |-> "transcription",
     moderation_flagged |-> FALSE, is_safe |-> TRUE]

\* what the service that called transcribe_audio_file returns for a
\* TranscriptionError
WrapError(service, e, file_path) ==
    IF service = "transcribe_audio" THEN e
    ELSE IF service = "fast_transcribe"
    THEN LocalTranscriptionError(e.error_type, <<"Transcription failed: ">> \o e.error_message,
                                 file_path, "transcription")
    ELSE TranscriptionWithModerationError(e.error_type,
                                          <<"Transcription failed: ">> \o e.error_message,
                                          file_path, "transcription")

\* transcribe_audio up to its first provider call: validation, preprocessing
\* and the except / finally clauses when validation raises
EnterTranscribe(pre) ==
    \E e \in {validate_audio_file(req'.audio_file_path)} :
       /\ stt_calls' = 0
       /\ stt_log' = <<>>
       /\ NotScored
       /\ slept' = 0
       /\ attempt' = 0
       /\ tr' = None
       /\ IF e # NoException
          THEN /\ Return(WrapError(svc', handle_exception(e, req'.audio_file_path),
                                     req'.audio_file_path))
               /\ processed' = [path |-> "none", duration |-> 0]
               /\ UNCHANGED temp_on_disk
          ELSE /\ pc' = "stt"
               /\ processed' = preprocess_audio(req'.audio_file_path, pre)
               /\ temp_on_disk' = (temp_on_disk \/ pre.written)
               /\ UNCHANGED <<result, done_at>>

\* transcription.transcribe_audio_file called directly
BeginTranscribeAudio(path, language, pre) ==
    /\ StartRequest("transcribe_audio", TranscriptionRequest(path, language))
    /\ NoDecision
    /\ tkey' = NoKey
    /\ lookup' = NoLookup
    /\ EnterTranscribe(pre)
    /\ UNCHANGED cache_vars

\* FastTranscriptionService.transcribe up to its first suspension
FastTranscribe(r, pre) ==
    /\ StartRequest("fast_transcribe", r)
    /\ NoDecision
    /\ \E key \in {TranscriptionKey(r.audio_file_path, r)},
          cached_transcription \in {ft_get_cached_transcription(FtCaches, r.audio_file_path, r)} :
       /\ tkey' = key
       /\ lookup' = LookupRecord("ft", ft_transcription_cache, ft_cache_timestamps, key,
                                  cached_transcription)
       /\ UNCHANGED cache_vars
       /\ IF cached_transcription # None
          THEN /\ Return(TranscriptionResponse(cached_transcription.transcript,
                                               cached_transcription.file_path,
                                               cached_transcription.language_detected,
                                               cached_transcription.duration,
                                               cached_transcription.response_format))
               /\ tr' = cached_transcription
               /\ stt_calls' = 0
               /\ stt_log' = <<>>
               /\ NotScored
               /\ slept' = 0
               /\ attempt' = 0
               /\ UNCHANGED <<processed, temp_on_disk>>
          ELSE EnterTranscribe(pre)

BeginFastTranscribe(path, language, pre) ==
    /\ pc = "idle"
    /\ FastTranscribe(TranscriptionRequest(path, language), pre)

\* FastTranscriptionWithModerationService.transcribe_and_moderate up to its
\* first suspension
TranscribeAndModerate(r, pre) ==
    /\ StartRequest("transcribe_and_moderate", r)
    /\ NoDecision
    /\ \E key \in {TranscriptionKey(r.audio_file_path, r)},
          cached_transcription \in {tm_get_cached_transcription(TmCaches, r.audio_file_path, r)} :
       /\ tkey' = key
       /\ lookup' = LookupRecord("tm", tm_transcription_cache, tm_cache_timestamps, key,
                                  cached_transcription)
       /\ UNCHANGED cache_vars
       /\ IF cached_transcription # None
          THEN /\ pc' = "mod"
               /\ tr' = cached_transcription
               /\ stt_calls' = 0
               /\ stt_log' = <<>>
               /\ NotScored
               /\ slept' = 0
               /\ attempt' = 0
               /\ UNCHANGED <<processed, temp_on_disk, result, done_at>>
          ELSE EnterTranscribe(pre)

BeginTranscribeAndModerate(path, language, pre) ==
    /\ pc = "idle"
    /\ TranscribeAndModerate(TranscriptionRequest(path, language), pre)

\* the finally clause of transcribe_audio: the processed copy is unlinked
\* when it is not the original file
Cleanup ==
    temp_on_disk' = IF processed.path = "temp" THEN FALSE ELSE temp_on_disk

\* transcription_dict built by the cached services from a response
transcription_dict(t) ==
    [transcript |-> t.transcript, file_path |-> t.file_path,
     language_detected |-> t.language_detected, duration |-> t.duration,
     response_format |-> t.response_format]

\* transcribe_audio returned response t to the service that called it
Transcribed(t) ==
    IF svc = "transcribe_audio"
    THEN /\ Return(t)
         /\ UNCHANGED <<cache_vars, tr>>
    ELSE IF svc = "fast_transcribe"
    THEN \E c \in {ft_cache_transcription(FtCaches,
                                            TranscriptionKey(req.audio_file_path, req),
                                            transcription_dict(t))} :
            /\ ft_transcription_cache' = c.transcription
            /\ ft_cache_timestamps' = c.timestamps
            /\ tr' = t
            /\ Return(TranscriptionResponse(t.transcript, t.file_path, t.language_detected,
                                            t.duration, t.response_format))
            /\ UNCHANGED <<tm_transcription_cache, tm_moderation_cache, tm_cache_timestamps>>
    ELSE \E c \in {tm_cache_transcription(TmCaches,
                                            TranscriptionKey(req.audio_file_path, req),
                                            transcription_dict(t))} :
            /\ tm_transcription_cache' = c.transcription
            /\ tm_moderation_cache' = c.moderation
            /\ tm_cache_timestamps' = c.timestamps
            /\ tr' = t
            /\ pc' = "mod"
            /\ UNCHANGED <<ft_transcription_cache, ft_cache_timestamps, result, done_at>>

\* a failure path that stores an empty transcription for the request's key
Failed_storing(e) ==
    /\ Return(WrapError(svc, e, req.audio_file_path))
    /\ ft_transcription_cache' =
          Put(ft_transcription_cache, TranscriptionKey(req.audio_file_path, req),
              [transcript |-> <<>>, file_path |-> req.audio_file_path,
               language_detected |-> "None", duration |-> 0,
               response_format |-> req.response_format])
    /\ ft_cache_timestamps' =
          Put(ft_cache_timestamps, TranscriptionKey(req.audio_file_path, req), now)
    /\ UNCHANGED <<tm_transcription_cache, tm_moderation_cache, tm_cache_timestamps, tr>>

\* a failure after which the request ends without returning anything
Failed_lost(e) ==
    /\ pc' = "lost"
    /\ UNCHANGED <<result, done_at, cache_vars, tr>>

\* transcribe_audio returned error e to the service that called it
Failed(e) ==
    /\ Return(WrapError(svc, e, req.audio_file_path))
    /\ UNCHANGED <<cache_vars, tr>>

\* one iteration of the retry loop of transcribe_audio: the provider is
\* called once and answers `outcome`
SttCall(outcome) ==
    /\ pc = "stt"
    /\ stt_calls' = stt_calls + 1
    /\ stt_log' = Append(stt_log, outcome.kind)
    /\ IF outcome.kind = "ok"
       THEN /\ segments' = outcome.segments
            /\ confidence_score' = calculate_confidence_score(outcome.segments)
            /\ Transcribed(TranscriptionResponse(outcome.text, req.audio_file_path,
                                                 outcome.language, processed.duration,
                                                 req.response_format))
            /\ Cleanup
            /\ UNCHANGED <<attempt, slept>>
       ELSE IF RetriesAfter(outcome.kind, attempt)
       THEN /\ attempt' = attempt + 1
            /\ slept' = slept + wait_time(outcome.kind, attempt)
            /\ UNCHANGED <<cache_vars, pc, tr, result, done_at, temp_on_disk, segments,
                           confidence_score>>
       ELSE /\ Failed(handle_exception(Raised(outcome.kind, <<outcome.kind>>),
                                       req.audio_file_path))
            /\ Cleanup
            /\ UNCHANGED <<attempt, slept, segments, confidence_score>>
    /\ UNCHANGED <<now, fs, svc, req, processed, cls_calls, cls_resp, pat_runs, adapter,
                   decision, lookup, tkey, nreq, threads>>

\* step 2 of transcribe_and_moderate: the transcript is moderated and the
\* response is built; the classifier, if called, answers `outcome`
Moderate(outcome) ==
    /\ pc = "mod"
    /\ \E m \in {fast_moderate_text(tr.transcript, outcome, TmCaches)} :
        LET is_flagged == Get(m.verdict, "flagged", FALSE)
            moderation_reason == Get(m.verdict, "reason",
                                     Reason("No issues detected", <<>>, <<>>))
        IN /\ tm_transcription_cache' = m.caches.transcription
           /\ tm_moderation_cache' = m.caches.moderation
           /\ tm_cache_timestamps' = m.caches.timestamps
           /\ cls_calls' = m.cls_calls
           /\ cls_resp' = m.cls_resp
           /\ pat_runs' = m.pat_runs
           /\ adapter' = m.adapter
           /\ decision' = [entry |-> "_fast_moderate_text", text |-> tr.transcript,
                           verdict |-> m.verdict]
           /\ lookup' = m.lookup
           /\ Return(TranscriptionWithModerationResponse(tr, is_flagged, moderation_reason,
                                                         ~is_flagged))
    /\ UNCHANGED <<now, fs, ft_transcription_cache, ft_cache_timestamps, svc, req,
                   attempt, processed, temp_on_disk, tr, stt_calls, stt_log,
                   segments, confidence_score, slept,
                   tkey, nreq, threads>>

\* the requests and provider answers of the cached services
CachedPaths == Paths
CachedPreprocess == {o \in PreprocessOutcomes : o.path = "temp"}
CachedSttOutcomes == {o \in SttOutcomes : o.kind \in {"ok", "RateLimitError", "APIError"}}

Next ==
    \/ Tick
    \/ \E text \in Transcripts, outcome \in PipelineOutcomes : ModerateText(text, outcome)
    \/ \E path \in CachedPaths, language \in Languages, pre \in CachedPreprocess :
          BeginFastTranscribe(path, language, pre)
    \/ \E path \in CachedPaths, language \in Languages, pre \in CachedPreprocess :
          BeginTranscribeAndModerate(path, language, pre)
    \/ \E outcome \in CachedSttOutcomes : SttCall(outcome)
    \/ \E outcome \in PipelineOutcomes : Moderate(outcome)

Spec == Init /\ [][Next]_vars

(***************************************************************************)
(* The transcribe-and-moderate pipeline alone, on the valid audio file.    *)
(***************************************************************************)
NextPipeline ==
    \/ Tick
    \/ \E language \in Languages, pre \in CachedPreprocess :
          BeginTranscribeAndModerate("a.wav", language, pre)
    \/ \E outcome \in CachedSttOutcomes : SttCall(outcome)
    \/ \E outcome \in PipelineOutcomes : Moderate(outcome)

SpecPipeline == Init /\ [][NextPipeline]_vars

(***************************************************************************)
(* The cached services together with the cache-management functions of the *)
(* two modules (clear_cache, _cleanup_old_cache_entries, get_cache_stats), *)
(* each called between two requests and run to its end.                    *)
(***************************************************************************)
\* transcription_with_moderation.clear_cache
tm_clear_cache(c) ==
    [c EXCEPT !.transcription = EmptyDict, !.moderation = EmptyDict,
              !.timestamps = EmptyDict]

\* fast_transcription.clear_cache
ft_clear_cache(c) == [c EXCEPT !.transcription = EmptyDict, !.timestamps = EmptyDict]

\* transcription_with_moderation.get_cache_stats
tm_get_cache_stats(c) ==
    [transcription_cache_size |-> Cardinality(DOMAIN c.transcription),
     moderation_cache_size |-> Cardinality(DOMAIN c.moderation),
     total_cache_entries |-> Cardinality(DOMAIN c.timestamps),
     cache_enabled |-> ENABLE_CACHING,
     fast_moderation_enabled |-> ENABLE_FAST_MODERATION]

\* a cache-management function of transcription_with_moderation is called
\* and leaves the dictionaries as c
TmManage(name, c) ==
    /\ pc = "idle"
    /\ svc' = name
    /\ tm_transcription_cache' = c.transcription
    /\ tm_moderation_cache' = c.moderation
    /\ tm_cache_timestamps' = c.timestamps
    /\ UNCHANGED <<now, fs, ft_transcription_cache, ft_cache_timestamps, pc, req, attempt,
                   processed, temp_on_disk, tr, result, stt_calls, stt_log, segments,
                   confidence_score, slept, cls_calls, cls_resp, pat_runs, adapter,
                   decision, lookup, tkey, done_at, nreq, threads>>

\* a cache-management function of fast_transcription is called and leaves
\* the dictionaries as c
FtManage(name, c) ==
    /\ pc = "idle"
    /\ svc' = name
    /\ ft_transcription_cache' = c.transcription
    /\ ft_cache_timestamps' = c.timestamps
    /\ UNCHANGED <<now, fs, tm_transcription_cache, tm_moderation_cache,
                   tm_cache_timestamps, pc, req, attempt,
                   processed, temp_on_disk, tr, result, stt_calls, stt_log, segments,
                   confidence_score, slept, cls_calls, cls_resp, pat_runs, adapter,
                   decision, lookup, tkey, done_at, nreq, threads>>

TmClearCache == TmManage("tm.clear_cache", tm_clear_cache(TmCaches))
TmCleanup == TmManage("tm._cleanup_old_cache_entries", tm_cleanup_old_cache_entries(TmCaches))
FtClearCache == FtManage("ft.clear_cache", ft_clear_cache(FtCaches))
FtCleanup == FtManage("ft._cleanup_old_cache_entries", ft_cleanup_old_cache_entries(FtCaches))

\* the provider answers of this specification
ManagedSttOutcomes == {SttSuccess(<<"hi">>), SttSuccess(<<"fuck">>), SttFailure("APIError")}

NextManaged ==
    \/ Tick
    \/ \E pre \in CachedPreprocess : BeginFastTranscribe("a.wav", "None", pre)
    \/ \E pre \in CachedPreprocess : BeginTranscribeAndModerate("a.wav", "None", pre)
    \/ \E outcome \in ManagedSttOutcomes : SttCall(outcome)
    \/ Moderate(NotFlagged)
    \/ TmClearCache
    \/ TmCleanup
    \/ FtClearCache
    \/ FtCleanup

SpecManaged == Init /\ [][NextManaged]_vars

(***************************************************************************)
(* The cached services called for one audio file with and without a        *)
(* prompt.                                                                 *)
(***************************************************************************)
PromptedRequests == {PromptedRequest("a.wav", "None", prompt) : prompt \in Prompts}

NextPrompted ==
    \/ Tick
    \/ \E r \in PromptedRequests, pre \in CachedPreprocess : FastTranscribe(r, pre)
    \/ \E r \in PromptedRequests, pre \in CachedPreprocess : TranscribeAndModerate(r, pre)
    \/ \E outcome \in ManagedSttOutcomes : SttCall(outcome)
    \/ Moderate(NotFlagged)

SpecPrompted == Init /\ [][NextPrompted]_vars

(***************************************************************************)
(* The cached services on an audio file that another process may remove at *)
(* any time, also while a request is waiting for the provider.             *)
(***************************************************************************)
\* the file is removed: from now on path.stat() fails
Unlink(path) ==
    /\ ~fs[path].missing
    /\ fs' = [fs EXCEPT ![path] = Missing]
    /\ UNCHANGED <<now, cache_vars, pc, svc, req, attempt, processed, temp_on_disk, tr,
                   result, stt_calls, stt_log, segments, confidence_score, slept,
                   cls_calls, cls_resp, pat_runs, adapter, decision, lookup, tkey,
                   done_at, nreq, threads>>

NextVanishing ==
    \/ Tick
    \/ \E pre \in CachedPreprocess : BeginFastTranscribe("a.wav", "None", pre)
    \/ \E pre \in CachedPreprocess : BeginTranscribeAndModerate("a.wav", "None", pre)
    \/ \E outcome \in ManagedSttOutcomes : SttCall(outcome)
    \/ Moderate(NotFlagged)
    \/ Unlink("a.wav")

SpecVanishing == Init /\ [][NextVanishing]_vars

(***************************************************************************)
(* The transcribing services with external calls that always come back:    *)
(* the provider call of transcribe_audio and the classifier call of the    *)
(* moderation are blocking calls that return or raise.                     *)
(***************************************************************************)
LivePaths == {"a.wav", "gone.wav"}
LiveClassifierOutcomes ==
    {ProviderResponse(FALSE, EmptyDict), ProviderFailure("Connection error.")}

\* a transcript, an empty transcript, or one of the failures
LiveSttOutcomes == {o \in SttOutcomes : o.kind = "ok" => o.text \in {<<>>, <<"hi">>}}

\* the provider call of the request in flight returns or raises
SttReturns == \E outcome \in LiveSttOutcomes : SttCall(outcome)

\* the moderation of the request in flight returns
ModerationReturns == \E outcome \in LiveClassifierOutcomes : Moderate(outcome)

NextLive ==
    \/ \E path \in LivePaths, pre \in CachedPreprocess :
          BeginTranscribeAudio(path, "None", pre)
    \/ \E path \in LivePaths, pre \in CachedPreprocess :
          BeginFastTranscribe(path, "None", pre)
    \/ \E path \in LivePaths, pre \in CachedPreprocess :
          BeginTranscribeAndModerate(path, "None", pre)
    \/ SttReturns
    \/ ModerationReturns

SpecLive ==
    /\ Init
    /\ [][NextLive]_vars
    /\ WF_vars(SttReturns)
    /\ WF_vars(ModerationReturns)

(***************************************************************************)
(* The decision engine alone: one decision, over every text and every      *)
(* classifier answer.                                                      *)
(***************************************************************************)
NextDecide ==
    /\ nreq = 0
    /\ \E text \in Texts, outcome \in ClassifierOutcomes : ModerateText(text, outcome)

SpecDecide == Init /\ [][NextDecide]_vars

(***************************************************************************)
(* The transcription orchestrator alone, over every request, preprocessing *)
(* outcome and provider answer.                                            *)
(***************************************************************************)
NextTranscribe ==
    \/ \E path \in Paths, language \in Languages, pre \in PreprocessOutcomes :
          BeginTranscribeAudio(path, language, pre)
    \/ \E outcome \in SttOutcomes \cup ScoredOutcomes : SttCall(outcome)

SpecTranscribe == Init /\ [][NextTranscribe]_vars

(***************************************************************************)
(* The caches near their ceiling: the process has served MAX_CACHE_SIZE or *)
(* MAX_CACHE_SIZE - 1 earlier versions of the audio file and a few texts,  *)
(* the first of them CACHE_MAX_AGE seconds ago, the others half as long    *)
(* ago.                                                                    *)
(***************************************************************************)
EarlierTranscriptionKey(i) ==
    <<"transcription", get_file_hash("a.wav", i, 0), <<"None", "text", 0>> >>
EarlierText(i) == [j \in 1..(i + 1) |-> "hi"]
EarlierStamp(i) == IF i = 1 THEN 0 ELSE CACHE_MAX_AGE \div 2
EarlierTranscription ==
    transcription_dict(TranscriptionResponse(<<"hi">>, "a.wav", "en", 1, "text"))
EarlierVerdict == moderate_text(<<"hi">>, ProviderResponse(FALSE, EmptyDict)).verdict

EarlierTranscriptions(n) ==
    [k \in {EarlierTranscriptionKey(i) : i \in 1..n} |-> EarlierTranscription]
EarlierModerations(n) ==
    [k \in {ModerationKey(EarlierText(i)) : i \in 1..n} |-> EarlierVerdict]
EarlierStamps(nT, nM) ==
    [k \in {EarlierTranscriptionKey(i) : i \in 1..nT}
              \cup {ModerationKey(EarlierText(i)) : i \in 1..nM}
        |-> IF k \in {EarlierTranscriptionKey(1), ModerationKey(EarlierText(1))}
            THEN EarlierStamp(1) ELSE EarlierStamp(2)]

InitCapacity ==
    /\ now = CACHE_MAX_AGE
    /\ \E nT \in {MAX_CACHE_SIZE - 1, MAX_CACHE_SIZE}, nM \in {0, 2} :
          /\ tm_transcription_cache = EarlierTranscriptions(nT)
          /\ tm_moderation_cache = EarlierModerations(nM)
          /\ tm_cache_timestamps = EarlierStamps(nT, nM)
          /\ ft_transcription_cache = EarlierTranscriptions(nT)
          /\ ft_cache_timestamps = EarlierStamps(nT, 0)
    /\ NoRequest

CapacitySttOutcomes == {SttSuccess(<<"hi">>), SttSuccess(<<"want">>)}
NextCapacity ==
    \/ Tick
    \/ \E language \in Languages, pre \in CachedPreprocess :
          BeginFastTranscribe("a.wav", language, pre)
    \/ \E language \in Languages, pre \in CachedPreprocess :
          BeginTranscribeAndModerate("a.wav", language, pre)
    \/ \E outcome \in CapacitySttOutcomes : SttCall(outcome)
    \/ Moderate(NotFlagged)

SpecCapacity == InitCapacity /\ [][NextCapacity]_vars

\* the caches at their ceiling half an hour after the first entry was
\* stored, the others having just been stored: no entry has expired
InitCeiling ==
    /\ now = CACHE_MAX_AGE \div 2
    /\ tm_transcription_cache = EarlierTranscriptions(MAX_CACHE_SIZE)
    /\ tm_moderation_cache = EarlierModerations(2)
    /\ tm_cache_timestamps = EarlierStamps(MAX_CACHE_SIZE, 2)
    /\ ft_transcription_cache = EarlierTranscriptions(MAX_CACHE_SIZE)
    /\ ft_cache_timestamps = EarlierStamps(MAX_CACHE_SIZE, 0)
    /\ NoRequest

CeilingSttOutcomes == {SttSuccess(<<"want">>)}
NextCeiling ==
    \/ Tick
    \/ \E pre \in CachedPreprocess : BeginFastTranscribe("a.wav", "None", pre)
    \/ \E language \in Languages, pre \in CachedPreprocess :
          BeginTranscribeAndModerate("a.wav", language, pre)
    \/ \E outcome \in CeilingSttOutcomes : SttCall(outcome)
    \/ Moderate(NotFlagged)

SpecCeiling == InitCeiling /\ [][NextCeiling]_vars

(***************************************************************************)
(* The cache functions of transcription_with_moderation run by several     *)
(* threads.  Each statement that reads or writes a dictionary is one step; *)
(* the functions take no lock.  All operations use one transcription key.  *)
(***************************************************************************)
SharedKey == TranscriptionKey("a.wav", TranscriptionRequest("a.wav", "None"))
PutValues ==
    {transcription_dict(TranscriptionResponse(t, "a.wav", "en", 5, "text")) :
        t \in {<<"hi">>, <<"want">>}}
OperationKinds == {"lookup", "put", "sweep", "clear"}
FirstPc(kind) ==
    IF kind = "lookup" THEN "valid"
    ELSE IF kind = "put" THEN "store"
    ELSE IF kind = "sweep" THEN "collect"
    ELSE "clear_transcription"

Finished(th, outcome, got) == [th EXCEPT !.pc = "done", !.outcome = outcome, !.got = got]

\* _is_cache_valid called by _get_cached_transcription
lookup_valid(th, timestamps) ==
    IF /\ ENABLE_CACHING
       /\ SharedKey \in DOMAIN timestamps
       /\ (now - timestamps[SharedKey]) < CACHE_MAX_AGE
    THEN [th EXCEPT !.pc = "contains"]
    ELSE Finished(th, "miss", None)

\* `cache_key in _transcription_cache`
lookup_contains(th, cache) ==
    IF SharedKey \in DOMAIN cache THEN [th EXCEPT !.pc = "read"]
    ELSE Finished(th, "miss", None)

\* a read that lets the KeyError out of the lookup
lookup_read_uncaught(th, cache) ==
    IF SharedKey \in DOMAIN cache THEN Finished(th, "hit", cache[SharedKey])
    ELSE Finished(th, "raised", None)

\* `return _transcription_cache[cache_key]`; a KeyError is caught by the
\* except clause of the lookup, which then returns None
lookup_read(th, cache) ==
    IF SharedKey \in DOMAIN cache THEN Finished(th, "hit", cache[SharedKey])
    ELSE Finished(th, "miss", None)

\* a thread calls one of the cache functions
Issue(t, kind, value) ==
    /\ pc = "idle"
    /\ threads[t].pc = "idle"
    /\ threads' = [threads EXCEPT ![t] = [IdleThread EXCEPT !.kind = kind,
                                                           !.pc = FirstPc(kind),
                                                           !.value = value]]
    /\ UNCHANGED <<now, fs, cache_vars, pc, svc, req, attempt, processed, temp_on_disk,
                   tr, result, stt_calls, stt_log,
                segments, confidence_score, slept, cls_calls, cls_resp, pat_runs,
                   adapter, decision, lookup, tkey, done_at, nreq>>

RequestUnchanged ==
    UNCHANGED <<now, fs, ft_transcription_cache, ft_cache_timestamps, pc, svc, req,
                attempt, processed, temp_on_disk, tr, result, stt_calls, stt_log,
                segments, confidence_score, slept,
                cls_calls, cls_resp, pat_runs, adapter, decision, lookup, tkey, done_at,
                nreq>>

\* one step of _get_cached_transcription
LookupStep(t) ==
    /\ threads[t].pc \in {"valid", "contains", "read"}
    /\ threads' = [threads EXCEPT ![t] =
          IF threads[t].pc = "valid" THEN lookup_valid(threads[t], tm_cache_timestamps)
          ELSE IF threads[t].pc = "contains"
          THEN lookup_contains(threads[t], tm_transcription_cache)
          ELSE lookup_read(threads[t], tm_transcription_cache)]
    /\ UNCHANGED <<tm_transcription_cache, tm_moderation_cache, tm_cache_timestamps>>
    /\ RequestUnchanged

\* one step of _cache_transcription
PutStep(t) ==
    /\ threads[t].pc \in {"store", "stamp", "size"}
    /\ IF threads[t].pc = "store"
       THEN /\ tm_transcription_cache' = Put(tm_transcription_cache, SharedKey,
                                             threads[t].value)
            /\ threads' = [threads EXCEPT ![t].pc = "stamp"]
            /\ UNCHANGED <<tm_moderation_cache, tm_cache_timestamps>>
       ELSE IF threads[t].pc = "stamp"
       THEN /\ tm_cache_timestamps' = Put(tm_cache_timestamps, SharedKey, now)
            /\ threads' = [threads EXCEPT ![t].pc = "size"]
            /\ UNCHANGED <<tm_transcription_cache, tm_moderation_cache>>
       ELSE /\ threads' = [threads EXCEPT ![t] =
                  IF Cardinality(DOMAIN tm_transcription_cache) > MAX_CACHE_SIZE
                  THEN [threads[t] EXCEPT !.pc = "collect"]
                  ELSE Finished(threads[t], "stored", None)]
            /\ UNCHANGED <<tm_transcription_cache, tm_moderation_cache,
                           tm_cache_timestamps>>
    /\ RequestUnchanged

\* one step of _cleanup_old_cache_entries: the list of expired keys is built,
\* then each key is popped from the timestamps and from its namespace
SweepStep(t) ==
    /\ threads[t].pc \in {"collect", "pop_stamp", "pop_value"}
    /\ IF threads[t].pc = "collect"
       THEN LET expired_keys == {key \in DOMAIN tm_cache_timestamps :
                                    (now - tm_cache_timestamps[key]) > CACHE_MAX_AGE}
            IN /\ threads' = [threads EXCEPT ![t] =
                     IF expired_keys = {} THEN Finished(threads[t], "swept", None)
                     ELSE [threads[t] EXCEPT !.pc = "pop_stamp", !.pending = expired_keys]]
               /\ UNCHANGED <<tm_transcription_cache, tm_moderation_cache,
                              tm_cache_timestamps>>
       ELSE IF threads[t].pc = "pop_stamp"
       THEN \E key \in threads[t].pending :
               /\ tm_cache_timestamps' = PopAll(tm_cache_timestamps, {key})
               /\ threads' = [threads EXCEPT ![t].pc = "pop_value", ![t].key = key]
               /\ UNCHANGED <<tm_transcription_cache, tm_moderation_cache>>
       ELSE LET key == threads[t].key
                rest == threads[t].pending \ {key}
            IN /\ tm_transcription_cache' =
                     IF key[1] = "transcription" THEN PopAll(tm_transcription_cache, {key})
                     ELSE tm_transcription_cache
               /\ tm_moderation_cache' =
                     IF key[1] = "moderation" THEN PopAll(tm_moderation_cache, {key})
                     ELSE tm_moderation_cache
               /\ threads' = [threads EXCEPT ![t] =
                     IF rest = {} THEN Finished([threads[t] EXCEPT !.pending = {}],
                                                "swept", None)
                     ELSE [threads[t] EXCEPT !.pc = "pop_stamp", !.pending = rest]]
               /\ UNCHANGED tm_cache_timestamps
    /\ RequestUnchanged

\* one step of clear_cache
ClearStep(t) ==
    /\ threads[t].pc \in {"clear_transcription", "clear_moderation", "clear_timestamps"}
    /\ IF threads[t].pc = "clear_transcription"
       THEN /\ tm_transcription_cache' = EmptyDict
            /\ threads' = [threads EXCEPT ![t].pc = "clear_moderation"]
            /\ UNCHANGED <<tm_moderation_cache, tm_cache_timestamps>>
       ELSE IF threads[t].pc = "clear_moderation"
       THEN /\ tm_moderation_cache' = EmptyDict
            /\ threads' = [threads EXCEPT ![t].pc = "clear_timestamps"]
            /\ UNCHANGED <<tm_transcription_cache, tm_cache_timestamps>>
       ELSE /\ tm_cache_timestamps' = EmptyDict
            /\ threads' = [threads EXCEPT ![t] = Finished(threads[t], "cleared", None)]
            /\ UNCHANGED <<tm_transcription_cache, tm_moderation_cache>>
    /\ RequestUnchanged

\* the cache holds nothing or one entry for the key, fresh or expired
InitConcurrent ==
    /\ NoRequest
    /\ now \in {0, MaxNow}
    /\ \E held \in SUBSET {SharedKey} :
          /\ tm_transcription_cache = [k \in held |-> EarlierTranscription]
          /\ tm_cache_timestamps = [k \in held |-> 0]
    /\ tm_moderation_cache = EmptyDict
    /\ ft_transcription_cache = EmptyDict
    /\ ft_cache_timestamps = EmptyDict

ThreadStep(t) == LookupStep(t) \/ PutStep(t) \/ SweepStep(t) \/ ClearStep(t)

NextConcurrent ==
    \/ \E t \in Threads, kind \in OperationKinds \ {"put"} : Issue(t, kind, None)
    \/ \E t \in Threads, value \in PutValues : Issue(t, "put", value)
    \/ \E t \in Threads : LookupStep(t)
    \/ \E t \in Threads : PutStep(t)
    \/ \E t \in Threads : SweepStep(t)
    \/ \E t \in Threads : ClearStep(t)

SpecConcurrent == InitConcurrent /\ [][NextConcurrent]_vars

(***************************************************************************)
(* Requests of transcribe_and_moderate run by several threads at once.     *)
(* Each thread runs the cached part of one request: the lookup of the      *)
(* transcription of one file or of the verdict of one text, the external   *)
(* call after a miss, and the put of its answer.  The three are separate   *)
(* steps; the threads share the key.                                       *)
(***************************************************************************)
OverlapKinds == {"transcription", "moderation"}
OverlapText == <<"hi">>
OverlapKey(kind) == IF kind = "transcription" THEN SharedKey ELSE ModerationKey(OverlapText)

\* what the external call of a request may answer: a transcription, or the
\* verdict that moderate_text builds from the classifier's answer
OverlapVerdicts ==
    {moderate_text(OverlapText, outcome).verdict :
        outcome \in {ProviderResponse(FALSE, EmptyDict),
                     ProviderResponse(TRUE, [c \in {"violence"} |-> 10001])}}
Answers(kind) == IF kind = "transcription" THEN PutValues ELSE OverlapVerdicts

\* _get_cached_transcription / _get_cached_moderation of the request
overlap_lookup(kind, c) ==
    IF kind = "transcription"
    THEN tm_get_cached_transcription(c, "a.wav", TranscriptionRequest("a.wav", "None"))
    ELSE tm_get_cached_moderation(c, OverlapText)

\* _cache_transcription / _cache_moderation of the request
overlap_store(kind, c, value) ==
    IF kind = "transcription" THEN tm_cache_transcription(c, SharedKey, value)
    ELSE tm_cache_moderation(c, OverlapText, value)

\* the request of kind `kind` has another request of that kind in flight
OthersInFlight(th, kind) ==
    \E u \in Threads : threads[u] # th /\ threads[u].kind = kind
                           /\ threads[u].pc \in {"call", "cache"}

\* a request that waits for the answer of a request in flight for its key
after_lookup_coalescing(th, kind, cached) ==
    IF cached # None
    THEN Finished([th EXCEPT !.kind = kind, !.key = OverlapKey(kind), !.value = cached],
                  "hit", cached)
    ELSE IF OthersInFlight(th, kind)
    THEN [th EXCEPT !.kind = kind, !.key = OverlapKey(kind), !.pc = "join"]
    ELSE [th EXCEPT !.kind = kind, !.key = OverlapKey(kind), !.pc = "call"]

\* `if cached_transcription:` / `if cached_result:` of the request: a hit is
\* used, a miss leads to the external call
after_lookup(th, kind, cached) ==
    IF cached # None
    THEN Finished([th EXCEPT !.kind = kind, !.key = OverlapKey(kind), !.value = cached],
                  "hit", cached)
    ELSE [th EXCEPT !.kind = kind, !.key = OverlapKey(kind), !.pc = "call"]

\* a thread starts a request and looks its key up
BeginRequest(t, kind) ==
    /\ pc = "idle"
    /\ threads[t].pc = "idle"
    /\ threads' = [threads EXCEPT ![t] =
                      after_lookup(threads[t], kind, overlap_lookup(kind, TmCaches))]
    /\ UNCHANGED <<tm_transcription_cache, tm_moderation_cache, tm_cache_timestamps,
                   stt_calls, cls_calls>>
    /\ UNCHANGED <<now, fs, ft_transcription_cache, ft_cache_timestamps, pc, svc, req,
                   attempt, processed, temp_on_disk, tr, result, stt_log,
                   segments, confidence_score, slept, cls_resp, pat_runs, adapter,
                   decision, lookup, tkey, done_at, nreq>>

\* the external call of the thread's request returns `answer`
ExternalCall(t, answer) ==
    /\ threads[t].pc = "call"
    /\ answer \in Answers(threads[t].kind)
    /\ threads' = [threads EXCEPT ![t].pc = "cache", ![t].value = answer]
    /\ stt_calls' = stt_calls + (IF threads[t].kind = "transcription" THEN 1 ELSE 0)
    /\ cls_calls' = cls_calls + (IF threads[t].kind = "moderation" THEN 1 ELSE 0)
    /\ UNCHANGED <<tm_transcription_cache, tm_moderation_cache, tm_cache_timestamps>>
    /\ UNCHANGED <<now, fs, ft_transcription_cache, ft_cache_timestamps, pc, svc, req,
                   attempt, processed, temp_on_disk, tr, result, stt_log,
                   segments, confidence_score, slept, cls_resp, pat_runs, adapter,
                   decision, lookup, tkey, done_at, nreq>>

\* the thread's request stores its answer and goes on with it
StoreAnswer(t) ==
    /\ threads[t].pc = "cache"
    /\ \E c \in {overlap_store(threads[t].kind, TmCaches, threads[t].value)} :
          /\ tm_transcription_cache' = c.transcription
          /\ tm_moderation_cache' = c.moderation
          /\ tm_cache_timestamps' = c.timestamps
    /\ threads' = [threads EXCEPT ![t] = Finished(threads[t], "stored", threads[t].value)]
    /\ UNCHANGED <<stt_calls, cls_calls>>
    /\ UNCHANGED <<now, fs, ft_transcription_cache, ft_cache_timestamps, pc, svc, req,
                   attempt, processed, temp_on_disk, tr, result, stt_log,
                   segments, confidence_score, slept, cls_resp, pat_runs, adapter,
                   decision, lookup, tkey, done_at, nreq>>

NextOverlap ==
    \/ \E t \in Threads, kind \in OverlapKinds : BeginRequest(t, kind)
    \/ \E t \in Threads, answer \in PutValues \cup OverlapVerdicts : ExternalCall(t, answer)
    \/ \E t \in Threads : StoreAnswer(t)

SpecOverlap == Init /\ [][NextOverlap]_vars

(***************************************************************************)
(* Properties of the decision engine.                                      *)
(***************************************************************************)
PatternFlags(text) == check_custom_patterns_only(text).is_flagged

\* the categories of the threshold table whose score is above the cutoff
Exceeding(scores) ==
    {k \in DOMAIN CUSTOM_THRESHOLDS :
        Get(scores, CUSTOM_THRESHOLDS[k].category, 0) > CUSTOM_THRESHOLDS[k].threshold}

\* hundredths of a percent p is the score (units of 10^-5) to two decimals
IsPercentOf(p, score) == 10 * p - 5 <= score /\ score <= 10 * p + 5

ClassifierAnswered == cls_resp # None /\ cls_resp.ok
ClassifierFailed == cls_resp # None /\ ~cls_resp.ok

\* C1: in a decision of moderate_text or _fast_moderate_text on a text the
\* pattern matcher flags, the verdict has flagged = true and the classifier
\* is not called during that decision.
C1_PatternShortCircuit ==
    (decision # None /\ PatternFlags(decision.text)) =>
        /\ decision.verdict.flagged
        /\ cls_calls = 0
        /\ cls_resp = None

C1_Witness ==
    /\ decision # None
    /\ decision.entry = "_fast_moderate_text"
    /\ PatternFlags(decision.text)
    /\ pat_runs = 1

\* C2: when the pattern matcher finds nothing and the classifier call fails,
\* the decision returns flagged = false, and the transcribe-and-moderate
\* request ends as a success with is_safe = true.
C2_FailOpen ==
    ClassifierFailed =>
        /\ decision # None
        /\ ~PatternFlags(decision.text)
        /\ ~decision.verdict.flagged
        /\ svc = "transcribe_and_moderate" =>
              /\ pc = "idle"
              /\ result.success
              /\ result.is_safe
              /\ ~result.moderation_flagged

C2_Witness ==
    /\ ClassifierFailed
    /\ svc = "transcribe_and_moderate"
    /\ pc = "idle"
    /\ result.success

\* C3: for a successful classifier call the adapter's flagged result is true
\* exactly when the provider's flag is true or some category of the threshold
\* table has a score above its cutoff, and the violations it lists are the
\* categories above their cutoff whatever the provider's flag is.
C3_AdapterFlag ==
    (adapter # None /\ ClassifierAnswered) =>
        LET violations == adapter.openai_data.custom_threshold_violations
        IN /\ adapter.is_flagged <=>
                  (cls_resp.flagged \/ Exceeding(cls_resp.category_scores) # {})
           /\ {violations[i].category : i \in DOMAIN violations}
                 = {CUSTOM_THRESHOLDS[k].category : k \in Exceeding(cls_resp.category_scores)}
           /\ Len(violations) = Cardinality(Exceeding(cls_resp.category_scores))

C3_Witness ==
    /\ adapter # None
    /\ ClassifierAnswered
    /\ ~cls_resp.flagged
    /\ adapter.is_flagged

\* C4: for a text with no pattern match and a classifier score above the
\* cutoff of its category, the verdict has flagged = true and its reason
\* names that category with the score as a percentage.
C4_ThresholdVerdict ==
    (decision # None /\ ClassifierAnswered /\ ~PatternFlags(decision.text)) =>
        \A k \in Exceeding(cls_resp.category_scores) :
            /\ decision.verdict.flagged
            /\ \E i \in DOMAIN decision.verdict.reason.violations :
                  LET v == decision.verdict.reason.violations[i]
                  IN /\ v.category = CUSTOM_THRESHOLDS[k].category
                     /\ IsPercentOf(v.percent,
                                    cls_resp.category_scores[CUSTOM_THRESHOLDS[k].category])

C4_Witness ==
    /\ decision # None
    /\ ClassifierAnswered
    /\ ~cls_resp.flagged
    /\ ~PatternFlags(decision.text)
    /\ Exceeding(cls_resp.category_scores) # {}
    /\ decision.verdict.flagged

\* C5: for a text with no pattern match, a provider flag of false and no
\* score above its cutoff (a score equal to the cutoff and an absent category
\* are not above it), the verdict has flagged = false.
C5_CleanVerdict ==
    (/\ decision # None
     /\ ClassifierAnswered
     /\ ~PatternFlags(decision.text)
     /\ ~cls_resp.flagged
     /\ \A k \in DOMAIN CUSTOM_THRESHOLDS :
           Get(cls_resp.category_scores, CUSTOM_THRESHOLDS[k].category, 0)
               <= CUSTOM_THRESHOLDS[k].threshold)
        => ~decision.verdict.flagged

C5_Witness ==
    /\ decision # None
    /\ ClassifierAnswered
    /\ ~cls_resp.flagged
    /\ \E k \in DOMAIN CUSTOM_THRESHOLDS :
          /\ CUSTOM_THRESHOLDS[k].category \in DOMAIN cls_resp.category_scores
          /\ cls_resp.category_scores[CUSTOM_THRESHOLDS[k].category]
                = CUSTOM_THRESHOLDS[k].threshold
    /\ ~decision.verdict.flagged

\* C6: for an empty or whitespace-only text the decision, through either
\* entry point, returns flagged = false with the fixed empty-text reason and
\* runs neither the pattern matcher nor the classifier.
C6_EmptyTextShortCircuit ==
    (decision # None /\ IsBlankText(decision.text)) =>
        /\ ~decision.verdict.flagged
        /\ "reason" \in DOMAIN decision.verdict
        /\ decision.verdict.reason = Reason("Empty text", <<>>, <<>>)
        /\ pat_runs = 0
        /\ cls_calls = 0

(***************************************************************************)
(* Properties of the result cache.                                         *)
(***************************************************************************)
CachedServices == {"fast_transcribe", "transcribe_and_moderate"}

SameTranscription(a, b) ==
    /\ a.transcript = b.transcript
    /\ a.language_detected = b.language_detected
    /\ a.duration = b.duration
    /\ a.response_format = b.response_format

\* a step that starts the second of two successive calls of one cached
\* service with the same cache key, the first having succeeded less than
\* CACHE_MAX_AGE ago
SecondCallStarts ==
    /\ nreq >= 1
    /\ nreq' = nreq + 1
    /\ svc \in CachedServices
    /\ svc' = svc
    /\ tkey' = tkey
    /\ result.success
    /\ now - done_at < CACHE_MAX_AGE

\* C7 as stated: the two calls issue exactly one speech-to-text call in total
\* and the second returns the first's transcript, language, duration and format.
C7_ExactlyOneCall ==
    [][SecondCallStarts =>
          /\ stt_calls + (IF pc' = "stt" THEN 1 ELSE 0) = 1
          /\ tr' # None
          /\ SameTranscription(tr', result)]_vars

\* C7: when the first of two successive calls with the same cache key called
\* the provider and succeeded, and the second starts less than CACHE_MAX_AGE
\* later, the second makes no speech-to-text call and returns the first's
\* transcript, language, duration and format; the calls of the pair are those
\* of the first call, one plus one per retried transient failure.
C7_CacheIdempotence ==
    [][/\ (SecondCallStarts /\ stt_calls >= 1) =>
              /\ stt_calls \in 1..(max_retries + 1)
              /\ pc' # "stt"
              /\ stt_calls' = 0
              /\ tr' # None
              /\ SameTranscription(tr', result)
              /\ svc = "fast_transcribe" =>
                    /\ pc' = "idle"
                    /\ result'.success
                    /\ SameTranscription(result', result)
              /\ svc = "transcribe_and_moderate" => pc' = "mod"
       /\ (pc = "mod" /\ pc' = "idle") =>
              /\ result'.success
              /\ SameTranscription(result', tr)
              /\ stt_calls' = stt_calls]_vars

C7_Witness ==
    /\ nreq >= 2
    /\ svc = "transcribe_and_moderate"
    /\ pc = "idle"
    /\ result.success
    /\ stt_calls = 0
    /\ tkey \in DOMAIN tm_transcription_cache
    /\ now - tm_cache_timestamps[tkey] \in 1..(CACHE_MAX_AGE - 1)
    /\ SameTranscription(result, tm_transcription_cache[tkey])

\* C8: a lookup made CACHE_MAX_AGE seconds or more after the entry was
\* inserted returns nothing even when the entry is still in storage, a lookup
\* made earlier on a stored entry returns it, and no lookup returns an
\* expired value.
C8_CacheExpiry ==
    lookup.module # "none" =>
        /\ (lookup.stored /\ lookup.stamped) =>
              (lookup.returned # None <=> lookup.at - lookup.inserted_at < CACHE_MAX_AGE)
        /\ lookup.returned # None =>
              /\ lookup.stored
              /\ lookup.stamped
              /\ lookup.at - lookup.inserted_at < CACHE_MAX_AGE

C8_Witness ==
    /\ lookup.module = "tm"
    /\ lookup.stored
    /\ lookup.stamped
    /\ lookup.at - lookup.inserted_at = CACHE_MAX_AGE
    /\ lookup.returned = None

(***************************************************************************)
(* Properties of the transcription orchestrator.                           *)
(***************************************************************************)
Invalid(file_path) ==
    \/ fs[file_path].missing
    \/ Suffix(file_path) \notin SUPPORTED_FORMATS
    \/ fs[file_path].size > MAX_FILE_SIZE

\* C9: a transcribe request whose file is missing, has an unsupported
\* extension or is larger than MAX_FILE_SIZE returns an error value of the
\* not-found or validation kind, and the provider is not called for it.
C9_ValidationFirst ==
    (svc = "transcribe_audio" /\ Invalid(req.audio_file_path)) =>
        /\ pc = "idle"
        /\ stt_calls = 0
        /\ stt_log = <<>>
        /\ ~result.success
        /\ result.error_type = (IF fs[req.audio_file_path].missing
                                THEN "FileNotFoundError" ELSE "ValidationError")

C9_Witness ==
    /\ svc = "transcribe_audio"
    /\ ~fs[req.audio_file_path].missing
    /\ Suffix(req.audio_file_path) \in SUPPORTED_FORMATS
    /\ fs[req.audio_file_path].size > MAX_FILE_SIZE
    /\ result.error_type = "ValidationError"

TransientErrors == {"RateLimitError", "APITimeoutError"}

\* C10: a transcribe request calls the provider at most max_retries + 1 = 3
\* times; every call but the last failed with a rate limit or a timeout; a
\* call that fails otherwise is the last and the request returns an error
\* value; and a third transient failure ends the request with an error value.
C10_BoundedRetries ==
    svc = "transcribe_audio" =>
        /\ stt_calls = Len(stt_log)
        /\ stt_calls <= 3
        /\ \A i \in 1..(Len(stt_log) - 1) : stt_log[i] \in TransientErrors
        /\ (stt_log # <<>> /\ stt_log[Len(stt_log)] \notin TransientErrors \cup {"ok"}) =>
              /\ pc = "idle"
              /\ ~result.success
              /\ result.error_type \in {"OpenAIError", "UnexpectedError"}
        /\ (Len(stt_log) = 3 /\ stt_log[3] \in TransientErrors) =>
              /\ pc = "idle"
              /\ ~result.success
              /\ result.error_type = "OpenAIError"
        /\ pc = "stt" => Len(stt_log) = attempt

C10_Witness ==
    /\ svc = "transcribe_audio"
    /\ Len(stt_log) = 3
    /\ stt_log[3] = "APITimeoutError"
    /\ pc = "idle"
    /\ result.error_type = "OpenAIError"

\* the number of seconds slept before retries 1..k when retry k waits 2k
LinearBackoff(k) == k * (k + 1)

\* C11: before retry k (k = 1, 2) of the speech-to-text call the orchestrator
\* has waited 2 s, then 4 s, whether the failed attempt was a rate limit or
\* a timeout.
C11_BackoffBothClasses ==
    svc = "transcribe_audio" => slept = LinearBackoff(attempt)

\* the transcription entries of both cached modules and their timestamps
TranscriptionEntries ==
    [ft |-> ft_transcription_cache,
     ft_stamps |-> ft_cache_timestamps,
     tm |-> tm_transcription_cache,
     tm_stamps |-> [k \in {x \in DOMAIN tm_cache_timestamps : x[1] = "transcription"}
                       |-> tm_cache_timestamps[k]]]

\* a step of a call to a cached service
CachedCallStep == svc' \in CachedServices /\ (pc # "idle" \/ nreq' # nreq)

\* C12: every step of a cached transcribe call that ends the call in an
\* error or leaves it before a successful provider result leaves the
\* transcription caches and their timestamps unchanged; an entry is written
\* only by the step in which the provider answered successfully.
C12_ErrorsLeaveCache ==
    [][/\ (CachedCallStep /\ pc' = "idle" /\ ~result'.success) => UNCHANGED cache_vars
       /\ (CachedCallStep /\ pc' = "stt") => UNCHANGED cache_vars
       /\ TranscriptionEntries' # TranscriptionEntries =>
              /\ pc = "stt"
              /\ stt_log'[Len(stt_log')] = "ok"
              /\ pc' = "mod" \/ result'.success]_vars

C12_Witness ==
    /\ svc = "fast_transcribe"
    /\ pc = "idle"
    /\ ~result.success
    /\ stt_calls >= 1
    /\ tkey \notin DOMAIN ft_transcription_cache
    /\ tkey \notin DOMAIN ft_cache_timestamps

\* C13: a decision during which the classifier call failed stores nothing in
\* the moderation cache.
C13_FailOpenNotCached ==
    [][(pc = "mod" /\ cls_resp' # None /\ ~cls_resp'.ok) =>
          /\ tm_moderation_cache' = tm_moderation_cache
          /\ tm_cache_timestamps' = tm_cache_timestamps]_vars

\* C19: every verdict carries the method that produced it: the pattern
\* matcher when it flagged, the classifier when only the classifier flagged,
\* clean exactly when flagged = false.
C19_MethodUsed ==
    decision # None =>
        /\ "detection_method" \in DOMAIN decision.verdict
        /\ decision.verdict.detection_method =
              (IF ~decision.verdict.flagged THEN "clean"
               ELSE IF PatternFlags(decision.text) THEN "custom_patterns"
               ELSE "openai_context_analysis")

\* C20: when the classifier call failed during a decision the verdict's
\* reason is the failure message, and the combined response reports that
\* reason as moderation_reason.
C20_FailureReason ==
    ClassifierFailed =>
        /\ decision.verdict.reason = adapter.reason
        /\ decision.verdict.reason.msg = "Context analysis failed"
        /\ (svc = "transcribe_and_moderate" /\ pc = "idle") =>
              result.moderation_reason = adapter.reason

\* C18: when transcribe_audio has returned, on any exit path, no
\* preprocessed temporary copy of the audio remains on disk.
C18_NoTempLeft ==
    (svc = "transcribe_audio" /\ pc = "idle") => ~temp_on_disk

\* a text-moderation request, unrelated to the transcription in flight, starts
UnrelatedRequestStarts ==
    \E text \in Transcripts, outcome \in PipelineOutcomes : ModerateText(text, outcome)

\* C17: while a request is suspended in its speech-to-text or classifier
\* round-trip, an unrelated request can start.
C17_RoundTripsDoNotBlock ==
    (pc \in {"stt", "mod"} /\ nreq < MaxRequests) => ENABLED UnrelatedRequestStarts

\* the keys a step stamped
PutKeys(before, after) ==
    {k \in DOMAIN after : k \notin DOMAIN before \/ after[k] # before[k]}

\* the stamped keys that are expired at time t
ExpiredKeys(stamps, t) == {k \in DOMAIN stamps : t - stamps[k] >= CACHE_MAX_AGE}

\* C14: when a put leaves more than MAX_CACHE_SIZE entries in a module's
\* cache, counted over its namespaces, the step of that put ends with no
\* expired entry in any namespace.
C14_SweepAboveCeiling ==
    [][/\ (/\ PutKeys(tm_cache_timestamps, tm_cache_timestamps') # {}
           /\ Cardinality(DOMAIN tm_cache_timestamps
                            \cup PutKeys(tm_cache_timestamps, tm_cache_timestamps'))
                 > MAX_CACHE_SIZE)
          => /\ ExpiredKeys(tm_cache_timestamps', now') = {}
             /\ DOMAIN tm_transcription_cache' \cup DOMAIN tm_moderation_cache'
                   = DOMAIN tm_cache_timestamps'
       /\ (/\ PutKeys(ft_cache_timestamps, ft_cache_timestamps') # {}
           /\ Cardinality(DOMAIN ft_cache_timestamps
                            \cup PutKeys(ft_cache_timestamps, ft_cache_timestamps'))
                 > MAX_CACHE_SIZE)
          => /\ ExpiredKeys(ft_cache_timestamps', now') = {}
             /\ DOMAIN ft_transcription_cache' = DOMAIN ft_cache_timestamps']_vars

\* every thread has finished the operation it ran, if any
AllFinished == \A t \in Threads : threads[t].pc \in {"idle", "done"}
Running(t) == threads[t].pc \notin {"idle", "done"}

\* C15: under every interleaving of lookups, puts, sweeps and clear_cache no
\* operation fails, a lookup returns only a value that a put stored for the
\* key, and once all operations have finished the keys with a timestamp are
\* the keys with a stored value.
C15_NeverCorrupted ==
    /\ \A t \in Threads : threads[t].outcome # "raised"
    /\ \A t \in Threads :
          threads[t].outcome = "hit" => threads[t].got \in PutValues \cup {EarlierTranscription}
    /\ AllFinished =>
          DOMAIN tm_cache_timestamps
              = DOMAIN tm_transcription_cache \cup DOMAIN tm_moderation_cache

\* C16: a lookup that has started can always take its next step, whatever
\* the other threads are doing with the same key, it ends as a hit or a
\* miss, and while any operation is unfinished some step is possible.
C16_LookupNeverBlocks ==
    /\ \A t \in Threads :
          (threads[t].kind = "lookup" /\ Running(t)) => ENABLED LookupStep(t)
    /\ \A t \in Threads :
          (threads[t].kind = "lookup" /\ threads[t].pc = "done") =>
              threads[t].outcome \in {"hit", "miss"}
    /\ (\E t \in Threads : Running(t)) => ENABLED (\E t \in Threads : ThreadStep(t))

C16_Witness ==
    \E t, u, w \in Threads :
        /\ threads[t].kind = "lookup" /\ threads[t].pc = "done"
        /\ threads[u].kind = "lookup" /\ threads[u].pc = "read"
        /\ threads[w].kind = "put" /\ threads[w].pc = "stamp"
        /\ ENABLED LookupStep(u)

(***************************************************************************)
(* Properties of the error objects and of the combined request.            *)
(***************************************************************************)
TranscribingServices == {"transcribe_audio", "fast_transcribe", "transcribe_and_moderate"}

\* a transcribing call has returned an error object
ReturnedError ==
    /\ svc \in TranscribingServices
    /\ pc = "idle"
    /\ result # None
    /\ ~result.success

\* C21: every error object a transcribing call returns carries a kind, a
\* message, the file reference and a stage, and the stage of a failed
\* transcription is "transcription".
C21_ErrorsCarryStage ==
    ReturnedError =>
        /\ {"error_type", "error_message", "file_path", "stage"} \subseteq DOMAIN result
        /\ result.file_path = req.audio_file_path
        /\ result.stage = "transcription"

VerdictFields == {"moderation_flagged", "moderation_reason", "is_safe"}

\* the transcription of the request in flight succeeded or came from the cache
TranscriptionSucceeded ==
    /\ tr # None
    /\ IF stt_calls = 0
       THEN /\ tkey \in DOMAIN tm_transcription_cache
            /\ tm_transcription_cache[tkey] = tr
       ELSE stt_log[Len(stt_log)] = "ok"

\* C22: a transcribe-and-moderate request ends either as a success carrying
\* the transcript and the whole verdict of a decision on that transcript, or
\* as an error carrying no verdict field; the pattern matcher and the
\* classifier run only once the transcription succeeded or was read from the
\* cache, and never for a request whose transcription failed.
C22_AllOrNothing ==
    svc = "transcribe_and_moderate" =>
        /\ pc = "stt" => (decision = None /\ pat_runs = 0 /\ cls_calls = 0)
        /\ pc = "mod" => (decision = None /\ pat_runs = 0 /\ cls_calls = 0
                            /\ TranscriptionSucceeded)
        /\ (pc = "idle" /\ ~result.success) =>
              /\ decision = None /\ pat_runs = 0 /\ cls_calls = 0
              /\ DOMAIN result \cap (VerdictFields \cup {"transcript"}) = {}
        /\ (pc = "idle" /\ result.success) =>
              /\ VerdictFields \cup {"transcript"} \subseteq DOMAIN result
              /\ result.moderation_flagged \in BOOLEAN
              /\ result.is_safe \in BOOLEAN
              /\ TranscriptionSucceeded
              /\ result.transcript = tr.transcript
              /\ decision # None
              /\ decision.text = tr.transcript

C22_Witness ==
    /\ svc = "transcribe_and_moderate"
    /\ pc = "idle"
    /\ ~result.success
    /\ stt_calls = max_retries + 1
    /\ nreq = MaxRequests
    /\ tm_moderation_cache # EmptyDict

(***************************************************************************)
(* Properties of the confidence score.                                     *)
(***************************************************************************)
\* the positions of the segments that report a log-probability
Reported(list) == {i \in DOMAIN list : list[i].has_avg_logprob}

RECURSIVE SumAt(_, _)
SumAt(list, positions) ==
    IF positions = {} THEN 0
    ELSE LET i == CHOOSE i \in positions : TRUE
         IN list[i].avg_logprob + SumAt(list, positions \ {i})

\* C23: the confidence computed for a provider response lies in [0, 1]; when
\* segments report log-probabilities it is their mean plus 1.0 clamped to
\* [0, 1] (0 for a mean of -1 or less, 1 for a mean of 0 or more); with no
\* segment data it is 0.85.
C23_ConfidenceClamp ==
    LET list == segments.list
        count == Cardinality(Reported(list))
        total == SumAt(list, Reported(list))
    IN /\ 0 <= confidence_score /\ confidence_score <= 1000
       /\ (~segments.present \/ count = 0) => confidence_score = 850
       /\ (/\ segments.present
           /\ count > 0
           /\ \A i \in Reported(list) : list[i].numeric) =>
              /\ total <= -1000 * count => confidence_score = 0
              /\ total >= 0 => confidence_score = 1000
              /\ (-1000 * count < total /\ total < 0) =>
                    /\ confidence_score = (total \div count) + 1000
                    /\ count * (confidence_score - 1000) <= total
                    /\ total < count * (confidence_score - 999)

C23_Witness ==
    /\ svc = "transcribe_audio"
    /\ pc = "idle"
    /\ result.success
    /\ segments.present
    /\ Len(segments.list) = 2
    /\ \A i \in DOMAIN segments.list : segments.list[i].numeric
    /\ confidence_score = 300

(***************************************************************************)
(* Properties of the cache namespaces and entries.                         *)
(***************************************************************************)
Requests == {TranscriptionRequest(p, l) : p \in Paths, l \in Languages}

\* what a lookup of each namespace returns for every key
TranscriptionLookups ==
    [r \in Requests |-> tm_get_cached_transcription(TmCaches, r.audio_file_path, r)]
ModerationLookups ==
    [t \in Transcripts |-> tm_get_cached_moderation(TmCaches, t)]

\* C24: the key of every request in the transcription namespace differs from
\* the key of every text in the moderation namespace, and the step of a put
\* into one namespace leaves what every lookup of the other returns unchanged.
C24_NamespacesDisjoint ==
    [][/\ \A r \in Requests, t \in Transcripts :
              TranscriptionKey(r.audio_file_path, r) # ModerationKey(t)
       /\ (pc = "mod" /\ tm_moderation_cache' # tm_moderation_cache) =>
              TranscriptionLookups' = TranscriptionLookups
       /\ (pc = "stt" /\ tm_transcription_cache' # tm_transcription_cache) =>
              ModerationLookups' = ModerationLookups]_vars

C24_Witness ==
    /\ svc = "transcribe_and_moderate"
    /\ pc = "idle"
    /\ result.success
    /\ stt_calls = 0
    /\ tkey \in DOMAIN tm_transcription_cache
    /\ ModerationKey(tr.transcript) \in DOMAIN tm_moderation_cache
    /\ {tkey, ModerationKey(tr.transcript)} \subseteq DOMAIN tm_cache_timestamps

\* the stored entry of key k, value or timestamp, is expired
ExpiredEntry(cache, stamps, k) ==
    /\ k \in DOMAIN cache \cup DOMAIN stamps
    /\ k \in DOMAIN stamps => now - stamps[k] >= CACHE_MAX_AGE

\* C25: once a cached service has looked its key up, no expired entry for
\* that key remains in storage, value or timestamp.
C25_LazyPurge ==
    (svc \in CachedServices /\ pc = "stt") =>
        /\ svc = "fast_transcribe" =>
              ~ExpiredEntry(ft_transcription_cache, ft_cache_timestamps, tkey)
        /\ svc = "transcribe_and_moderate" =>
              ~ExpiredEntry(tm_transcription_cache, tm_cache_timestamps, tkey)

(***************************************************************************)
(* Further properties of the decision engine.                              *)
(***************************************************************************)
\* C26: a decision calls the classifier at most once, through either entry
\* point; a failed call ends the decision and is not repeated.
C26_ClassifierOnce ==
    /\ cls_calls \in {0, 1}
    /\ cls_calls = 1 <=> cls_resp # None
    /\ ClassifierFailed =>
          /\ cls_calls = 1
          /\ pc = "idle"
          /\ decision # None
          /\ ~decision.verdict.flagged

C26_Witness ==
    /\ ClassifierFailed
    /\ cls_calls = 1
    /\ decision.entry = "_fast_moderate_text"
    /\ pat_runs = 2
    /\ nreq = MaxRequests
    /\ now = MaxNow
    /\ stt_calls = max_retries + 1

\* the rule groups with a pattern that matches the text
MatchingGroups(text) ==
    {g \in DOMAIN PatternGroups : AnyMatch(PatternGroups[g].patterns, text)}

\* C27: for every text the pattern matcher reports a boolean for each of the
\* seven rule groups, whichever of them matched; flagged is the disjunction of
\* the seven; the reason lists the descriptions of exactly the groups that
\* matched, or is the fixed no-violations message when none did.  The verdict
\* of moderate_text carries the seven flags.
C27_AllGroupsEvaluated ==
    (decision # None /\ decision.entry = "moderate_text") =>
        LET c == check_custom_patterns_only(decision.text)
            matching == MatchingGroups(decision.text)
        IN /\ Cardinality(GroupFlags) = 7
           /\ DOMAIN c.custom_flags = GroupFlags
           /\ \A g \in DOMAIN PatternGroups :
                 c.custom_flags[PatternGroups[g].flag] = (g \in matching)
           /\ c.is_flagged = (\E f \in GroupFlags : c.custom_flags[f])
           /\ IF matching = {}
              THEN c.reason = Reason("No custom pattern violations detected", <<>>, <<>>)
              ELSE /\ c.reason.msg = ""
                   /\ Len(c.reason.parts) = Cardinality(matching)
                   /\ {c.reason.parts[i] : i \in DOMAIN c.reason.parts}
                         = {PatternGroups[g].description : g \in matching}
           /\ decision.verdict.custom_flags = c.custom_flags
           /\ c.is_flagged => decision.verdict.flagged

C27_Witness ==
    /\ decision # None
    /\ decision.entry = "moderate_text"
    /\ MatchingGroups(decision.text) = {1}
    /\ DOMAIN decision.verdict.custom_flags = GroupFlags
    /\ ~decision.verdict.custom_flags["sexism_misogyny_transphobia"]
    /\ decision.verdict.flagged

\* this step is a decision on text t, through either entry point
DecisionStep(t) ==
    \/ pc = "mod" /\ tr.transcript = t
    \/ pc = "idle" /\ nreq' # nreq /\ svc' = "moderate_text" /\ req'.text = t

\* C28: a decision on a text that has a valid entry in the moderation cache
\* returns the cached verdict without calling the classifier, whether it is
\* made by moderate_text or by _fast_moderate_text.
C28_CacheEveryEntryPoint ==
    [][\A t \in Transcripts :
          (DecisionStep(t) /\ tm_get_cached_moderation(TmCaches, t) # None) =>
              /\ decision'.verdict = tm_get_cached_moderation(TmCaches, t)
              /\ cls_calls' = 0
              /\ cls_resp' = None]_vars

\* this step puts the key k of the transcribe-and-moderate caches
TmPutStep(k) ==
    \/ /\ svc = "transcribe_and_moderate" /\ pc = "stt" /\ pc' = "mod"
       /\ k = tkey
    \/ /\ pc = "mod" /\ pat_runs' >= 1
       /\ k = ModerationKey(tr.transcript)

\* this step puts the key k of the fast-transcription cache
FtPutStep(k) ==
    /\ svc = "fast_transcribe" /\ pc = "stt" /\ pc' = "idle" /\ result'.success
    /\ k = tkey

\* C29: a put on a key that already has an entry stores the new value and
\* sets the entry's timestamp to the time of the put, so that the entry is
\* valid from then on for CACHE_MAX_AGE; no step other than a put changes the
\* timestamp of an entry that stays stored.
C29_OverwriteRestamps ==
    [][/\ \A k \in DOMAIN tm_cache_timestamps :
             /\ TmPutStep(k) =>
                   /\ tm_cache_timestamps'[k] = now
                   /\ tm_is_cache_valid(tm_cache_timestamps, k)'
                   /\ k[1] = "transcription" =>
                         tm_transcription_cache'[k] = transcription_dict(tr')
                   /\ k[1] = "moderation" =>
                         tm_moderation_cache'[k] = decision'.verdict
             /\ (k \in DOMAIN tm_cache_timestamps' /\ ~TmPutStep(k)) =>
                   tm_cache_timestamps'[k] = tm_cache_timestamps[k]
       /\ \A k \in DOMAIN ft_cache_timestamps :
             /\ FtPutStep(k) =>
                   /\ ft_cache_timestamps'[k] = now
                   /\ ft_is_cache_valid(ft_cache_timestamps, k)'
                   /\ ft_transcription_cache'[k] = transcription_dict(tr')
             /\ (k \in DOMAIN ft_cache_timestamps' /\ ~FtPutStep(k)) =>
                   ft_cache_timestamps'[k] = ft_cache_timestamps[k]]_vars

C29_Witness ==
    /\ svc = "transcribe_and_moderate"
    /\ pc = "mod"
    /\ lookup.key = tkey
    /\ lookup.stored /\ lookup.stamped
    /\ lookup.inserted_at < now
    /\ tm_cache_timestamps[tkey] = now
    /\ tm_get_cached_transcription(TmCaches, req.audio_file_path, req) = transcription_dict(tr)

\* a transcribe-and-moderate request has returned a success response
ReturnedSuccess ==
    /\ svc = "transcribe_and_moderate"
    /\ pc = "idle"
    /\ result # None
    /\ result.success

\* C30: in every successful transcribe-and-moderate response is_safe is the
\* negation of moderation_flagged, and moderation_flagged is the flagged
\* field of the verdict of the decision on the transcript, computed or read
\* from the moderation cache.
C30_SafeIsNotFlagged ==
    ReturnedSuccess =>
        /\ result.is_safe = ~result.moderation_flagged
        /\ decision # None
        /\ decision.text = result.transcript
        /\ result.moderation_flagged = decision.verdict.flagged
        /\ (lookup.key = ModerationKey(decision.text) /\ lookup.returned # None) =>
              decision.verdict = lookup.returned

C30_Witness ==
    /\ ReturnedSuccess
    /\ result.moderation_flagged
    /\ ~result.is_safe
    /\ lookup.key = ModerationKey(result.transcript)
    /\ lookup.returned # None
    /\ cls_calls = 0 /\ pat_runs = 0

(***************************************************************************)
(* Properties of the cache-management functions.                           *)
(***************************************************************************)
\* the statistics add up: every key with a timestamp has a value in one of
\* the two namespaces and the other way round
StatsAddUp(c) ==
    /\ DOMAIN c.timestamps = DOMAIN c.transcription \cup DOMAIN c.moderation
    /\ tm_get_cache_stats(c).total_cache_entries =
          tm_get_cache_stats(c).transcription_cache_size
              + tm_get_cache_stats(c).moderation_cache_size

\* every lookup of transcription_with_moderation is a miss
AllMisses ==
    /\ \A r \in Requests :
          tm_get_cached_transcription(TmCaches, r.audio_file_path, r) = None
    /\ \A text \in Transcripts : tm_get_cached_moderation(TmCaches, text) = None

\* C31: when cache operations run one after the other (puts of both
\* namespaces, sweeps, clear_cache, lookups), the keys of the timestamp map
\* are exactly the keys of the two value maps, so that get_cache_stats
\* reports total_cache_entries = transcription_cache_size +
\* moderation_cache_size; right after clear_cache the three sizes are 0 and
\* every lookup is a miss.
C31_TimestampsMatchValues ==
    /\ StatsAddUp(TmCaches)
    /\ svc = "tm.clear_cache" =>
          /\ tm_get_cache_stats(TmCaches).total_cache_entries = 0
          /\ tm_get_cache_stats(TmCaches).transcription_cache_size = 0
          /\ tm_get_cache_stats(TmCaches).moderation_cache_size = 0
          /\ AllMisses

\* two requests have stored a transcription and the verdicts of two texts,
\* and a sweep has removed the older verdict
C31_Witness ==
    /\ svc = "tm._cleanup_old_cache_entries"
    /\ tm_get_cache_stats(TmCaches).transcription_cache_size = 1
    /\ tm_get_cache_stats(TmCaches).moderation_cache_size = 1
    /\ tm_get_cache_stats(TmCaches).total_cache_entries = 2
    /\ decision # None
    /\ ModerationKey(decision.text) \in DOMAIN tm_moderation_cache
    /\ ft_transcription_cache = EmptyDict
    /\ now = MaxNow
    /\ nreq = MaxRequests

(***************************************************************************)
(* Properties of the transcription cache key.                              *)
(***************************************************************************)
\* a step that starts a call of a cached service for the file, language,
\* response format and temperature of the call before it, with another
\* prompt, that call having transcribed less than CACHE_MAX_AGE ago
OtherPromptCallStarts ==
    /\ nreq >= 1
    /\ nreq' = nreq + 1
    /\ svc \in CachedServices
    /\ svc' = svc
    /\ req'.audio_file_path = req.audio_file_path
    /\ req'.language = req.language
    /\ req'.response_format = req.response_format
    /\ req'.temperature = req.temperature
    /\ req'.prompt # req.prompt
    /\ result.success
    /\ stt_calls >= 1
    /\ now - done_at < CACHE_MAX_AGE

\* C32: the prompt is not part of the transcription cache key: a request for
\* the same file fingerprint, language, response format and temperature as
\* the request that was transcribed less than CACHE_MAX_AGE before it, with a
\* different prompt, has the same key, makes no speech-to-text call and is
\* served the transcript of that earlier request.
C32_PromptNotInKey ==
    [][OtherPromptCallStarts =>
          /\ tkey' = tkey
          /\ pc' # "stt"
          /\ stt_calls' = 0
          /\ tr' # None
          /\ SameTranscription(tr', result)
          /\ svc = "fast_transcribe" =>
                /\ pc' = "idle"
                /\ result'.success
                /\ result'.transcript = result.transcript]_vars

\* a request with a prompt has been served from the cache
C32_Witness ==
    /\ nreq = MaxRequests
    /\ svc = "transcribe_and_moderate"
    /\ pc = "idle"
    /\ req.prompt # "None"
    /\ result.success
    /\ stt_calls = 0
    /\ tkey \in DOMAIN tm_transcription_cache
    /\ result.transcript = tm_transcription_cache[tkey].transcript
    /\ now - tm_cache_timestamps[tkey] \in 1..(CACHE_MAX_AGE - 1)

(***************************************************************************)
(* Properties of the cleanup sweep.                                        *)
(***************************************************************************)
\* this step runs the sweep of transcription_with_moderation: a put has
\* left more than MAX_CACHE_SIZE entries in its namespace
TmSweepStep ==
    \/ /\ TmPutStep(tkey)
       /\ Cardinality(DOMAIN tm_transcription_cache \cup {tkey}) > MAX_CACHE_SIZE
    \/ /\ pc = "mod"
       /\ TmPutStep(ModerationKey(tr.transcript))
       /\ Cardinality(DOMAIN tm_moderation_cache \cup {ModerationKey(tr.transcript)})
             > MAX_CACHE_SIZE

\* this step runs the sweep of fast_transcription
FtSweepStep ==
    /\ FtPutStep(tkey)
    /\ Cardinality(DOMAIN ft_transcription_cache \cup {tkey}) > MAX_CACHE_SIZE

\* the entry of key k has the same value and timestamp after the step
EntryKept(cache, stamps, cacheAfter, stampsAfter, k) ==
    /\ k \in DOMAIN stampsAfter
    /\ stampsAfter[k] = stamps[k]
    /\ k \in DOMAIN cache => (k \in DOMAIN cacheAfter /\ cacheAfter[k] = cache[k])

\* C33: a cleanup sweep removes only expired entries: every entry that is
\* valid when the sweep runs (now - timestamp < CACHE_MAX_AGE) has the same
\* value and the same timestamp after it, in the transcription and the
\* moderation namespace and in both modules; the entry just put is kept as
\* put.  The caches can therefore hold more than MAX_CACHE_SIZE entries.
C33_SweepKeepsValid ==
    [][/\ TmSweepStep =>
             /\ \A k \in DOMAIN tm_cache_timestamps :
                   (tm_is_cache_valid(tm_cache_timestamps, k) /\ ~TmPutStep(k)) =>
                      /\ EntryKept(tm_transcription_cache, tm_cache_timestamps,
                                   tm_transcription_cache', tm_cache_timestamps', k)
                      /\ EntryKept(tm_moderation_cache, tm_cache_timestamps,
                                   tm_moderation_cache', tm_cache_timestamps', k)
             /\ \A k \in DOMAIN tm_cache_timestamps' :
                   TmPutStep(k) => tm_is_cache_valid(tm_cache_timestamps, k)'
       /\ FtSweepStep =>
             /\ \A k \in DOMAIN ft_cache_timestamps :
                   (ft_is_cache_valid(ft_cache_timestamps, k) /\ ~FtPutStep(k)) =>
                      EntryKept(ft_transcription_cache, ft_cache_timestamps,
                                ft_transcription_cache', ft_cache_timestamps', k)
             /\ \A k \in DOMAIN ft_cache_timestamps' :
                   FtPutStep(k) => ft_is_cache_valid(ft_cache_timestamps, k)']_vars

\* the sweep has run on more than MAX_CACHE_SIZE transcriptions, none of them
\* expired, and has removed nothing
C33_Witness ==
    /\ svc = "transcribe_and_moderate"
    /\ pc = "mod"
    /\ stt_calls = 1
    /\ Cardinality(DOMAIN tm_transcription_cache) > MAX_CACHE_SIZE
    /\ tm_moderation_cache # EmptyDict
    /\ \A k \in DOMAIN tm_cache_timestamps : tm_is_cache_valid(tm_cache_timestamps, k)
    /\ DOMAIN tm_cache_timestamps = DOMAIN tm_transcription_cache \cup DOMAIN tm_moderation_cache

(***************************************************************************)
(* Properties of the cached services on files that are not there.          *)
(***************************************************************************)
\* a transcription key built from the fingerprint of a failed stat
MissingFileKey(k) == k[2][2] = 0 /\ k[2][3] = 0

\* C34: a cached service never serves a transcription for an audio file
\* that does not exist when the request is made: such a request returns an
\* error, and no entry is ever stored under the fingerprint (size 0, mtime
\* 0) of a missing file, also when the file is removed while the request
\* waits for the provider.
C34_MissingFileNeverServed ==
    [][/\ (/\ nreq' = nreq + 1
           /\ svc' \in CachedServices
           /\ fs[req'.audio_file_path].missing)
          => (pc' = "idle" /\ ~result'.success)
       /\ \A k \in DOMAIN tm_transcription_cache' \cup DOMAIN ft_transcription_cache' :
             ~MissingFileKey(k)]_vars

(***************************************************************************)
(* Properties of overlapping requests.                                     *)
(***************************************************************************)
\* the requests that have made their external call
Called == {t \in Threads : threads[t].pc = "cache" \/ threads[t].outcome = "stored"}

\* C35: the cache does not coalesce computations in flight.  A request
\* whose lookup misses goes on to its own external call, also while other
\* requests for the same key are between their lookup and their put; every
\* request that missed makes one external call and completes with the
\* answer of that call; each put replaces the entry, so the entry left is
\* the one of the request that stored last.
C35_NoCoalescing ==
    [][/\ \A t \in Threads :
             /\ (/\ threads[t].pc = "idle"
                 /\ threads'[t].pc # "idle"
                 /\ overlap_lookup(threads'[t].kind, TmCaches) = None)
                => threads'[t].pc = "call"
             /\ (threads[t].pc = "call" /\ threads'[t].pc # "call") =>
                   /\ threads'[t].pc = "cache"
                   /\ stt_calls' + cls_calls' = stt_calls + cls_calls + 1
             /\ (threads[t].pc = "cache" /\ threads'[t].pc # "cache") =>
                   /\ threads'[t].pc = "done"
                   /\ threads'[t].outcome = "stored"
                   /\ threads'[t].got = threads[t].value
                   /\ overlap_lookup(threads[t].kind, TmCaches)' = threads[t].value
       /\ (stt_calls + cls_calls)' = Cardinality(Called')
       /\ \A t \in Threads : threads'[t].pc \in {"idle", "call", "cache", "done"}]_vars

\* three requests for the transcription of one file have overlapped: each
\* has made its call and stored its answer, two of the answers differ, and
\* the cache holds one of them
C35_Witness ==
    /\ \A t \in Threads : /\ threads[t].kind = "transcription"
                           /\ threads[t].outcome = "stored"
    /\ stt_calls = Cardinality(Threads)
    /\ \E t, u \in Threads : threads[t].got # threads[u].got
    /\ \E t \in Threads : tm_transcription_cache[SharedKey] = threads[t].got

(***************************************************************************)
(* Properties of the two modules' caches taken together.                   *)
(***************************************************************************)
tm_cache_vars == <<tm_transcription_cache, tm_moderation_cache, tm_cache_timestamps>>
ft_cache_vars == <<ft_transcription_cache, ft_cache_timestamps>>

\* a step that calls a cache-management function
ManagementStep == pc = "idle" /\ nreq' = nreq /\ now' = now

\* the module of a cached service holds a valid entry for key k
HeldBy(service, k) ==
    IF service = "fast_transcribe"
    THEN ft_is_cache_valid(ft_cache_timestamps, k) /\ k \in DOMAIN ft_transcription_cache
    ELSE tm_is_cache_valid(tm_cache_timestamps, k) /\ k \in DOMAIN tm_transcription_cache

\* a step that starts a call of one cached service for the key that the
\* other cached service has just transcribed and stored
OtherServiceCallStarts ==
    /\ nreq >= 1
    /\ nreq' = nreq + 1
    /\ svc \in CachedServices
    /\ svc' \in CachedServices \ {svc}
    /\ tkey' = tkey
    /\ result.success
    /\ stt_calls >= 1
    /\ HeldBy(svc, tkey)

\* C36: the fast-transcription service and the transcribe-and-moderate
\* service keep independent caches: a put, a sweep or clear_cache of one
\* module leaves the entries and timestamps of the other unchanged, and a
\* request is served from the cache only by an entry of its own module, so
\* that a file transcribed through one service is transcribed again, with a
\* speech-to-text call of its own, when it is first requested through the
\* other.
C36_IndependentCaches ==
    [][/\ ft_cache_vars' # ft_cache_vars => UNCHANGED tm_cache_vars
       /\ tm_cache_vars' # tm_cache_vars => UNCHANGED ft_cache_vars
       /\ (ManagementStep /\ svc' = "ft.clear_cache") =>
             /\ ft_transcription_cache' = EmptyDict /\ ft_cache_timestamps' = EmptyDict
             /\ UNCHANGED tm_cache_vars
       /\ (ManagementStep /\ svc' = "tm.clear_cache") =>
             /\ tm_cache_timestamps' = EmptyDict
             /\ UNCHANGED ft_cache_vars
       /\ (nreq' = nreq + 1 /\ svc' \in CachedServices /\ pc' # "stt" /\ tr' # None) =>
             HeldBy(svc', tkey')
       /\ (OtherServiceCallStarts /\ ~HeldBy(svc', tkey')) =>
             /\ pc' = "stt"
             /\ stt_calls' = 0
             /\ tr' = None]_vars

\* the file has been transcribed through transcribe_and_moderate and then,
\* while that entry was valid, through the fast-transcription service, which
\* missed and made its own provider call
C36_Witness ==
    /\ svc = "fast_transcribe"
    /\ pc = "idle"
    /\ result.success
    /\ stt_calls = 1
    /\ lookup.module = "ft"
    /\ lookup.key = tkey
    /\ lookup.returned = None
    /\ tkey \in DOMAIN tm_transcription_cache
    /\ tkey \in DOMAIN tm_cache_timestamps
    /\ tm_cache_timestamps[tkey] <= lookup.at
    /\ lookup.at - tm_cache_timestamps[tkey] < CACHE_MAX_AGE
    /\ tkey \in DOMAIN ft_transcription_cache

(***************************************************************************)
(* Termination of the requests.                                            *)
(***************************************************************************)
\* the n-th request has returned a response or an error object
Returned(n) ==
    /\ nreq = n
    /\ pc = "idle"
    /\ result # None
    /\ result.success \in BOOLEAN
    /\ result.file_path = req.audio_file_path

\* C37: provided each external call returns or fails, every request of
\* transcribe_audio, of the fast-transcription service and of
\* transcribe_and_moderate returns a response or an error object: the retry
\* loop makes at most max_retries + 1 provider calls, whatever the sequence
\* of rate-limit, timeout and other failures, and no request stays in
\* flight forever or ends without a result.
C37_RequestsReturn ==
    /\ [](stt_calls <= max_retries + 1 /\ attempt <= max_retries)
    /\ \A n \in 1..MaxRequests : (nreq = n /\ pc # "idle") ~> Returned(n)

\* a request has failed after a rate-limit failure, a timeout and a third
\* failure of the provider
C37_Witness ==
    /\ svc = "transcribe_and_moderate"
    /\ Returned(MaxRequests)
    /\ ~result.success
    /\ stt_calls = max_retries + 1
    /\ stt_log[1] = "RateLimitError"
    /\ stt_log[2] = "APITimeoutError"

====
